---- MODULE Spec2Model ----
(***************************************************************************)
(* Model of the candidate ranker of spwipe                                 *)
(* (src/src/server/services/vectorSearch.ts) and of the embedding service  *)
(* it uses (src/src/server/services/embedding.ts).                         *)
(*                                                                         *)
(* Numbers are exact rationals <<n, d>> with d > 0 (IEEE rounding is not   *)
(* modelled).  The vectors given to the ranker and to                      *)
(* calculateCosineSimilarity are drawn from integer vectors whose          *)
(* Euclidean norm is an integer, so that Math.sqrt is exact on them.  The  *)
(* vectors the embedding service builds hold numbers r / sqrt(s) and NaN   *)
(* (see "The numbers of the embedding service").                           *)
(* An optional value (undefined / null in the source) is <<>> when absent  *)
(* and <<v>> when present.                                                 *)
(*                                                                         *)
(* Spec is the ranker over a store of songs; SpecShape is the ranker over  *)
(* stores whose vectors differ in length or are zero; SpecEmbed is the     *)
(* embedding service called on its own while the wall clock advances.      *)
(***************************************************************************)
EXTENDS Integers, Sequences, FiniteSets, TLC

VARIABLES
    store,      \* the rows of the Song table, in the order findMany returns them
    pc,         \* where the service is: "idle", "loop" (the greedy while loop), "done"
    op,         \* the method called: "none", "rank", "hybrid", "diverse"
    query,      \* queryVector of the call
    opts,       \* options of the call
    result,     \* what the call returned or threw
    candidates, \* getDiverseRecommendations: the scored pool
    selected,   \* getDiverseRecommendations: selected
    remaining,  \* getDiverseRecommendations: remaining
    currentYear,\* the year the wall clock shows (new Date().getFullYear())
    call,       \* the EmbeddingService method called and its argument
    returned,   \* what that method returned or threw
    earlier,    \* what an earlier call with the same argument returned, if any
    heap,       \* the arrays of the process by address: heap[a] is the content of array a
    given,      \* the callers' arrays and the table as they were handed to the services
    pending,    \* the calls of the search service that wait for findMany
    last,       \* what the call that has just returned gave back
    playlistAnalysis, \* the rows of the PlaylistAnalysis table
    procs       \* the running calls of the ingestion service

\* The variables of the ranker, of the embedding service, of the arrays in
\* memory and of the ingestion service.
rvars == <<store, pc, op, query, opts, result, candidates, selected, remaining>>
evars == <<currentYear, call, returned, earlier>>
hvars == <<heap, given, pending, last>>
ivars == <<playlistAnalysis, procs>>
vars == <<store, pc, op, query, opts, result, candidates, selected, remaining,
          currentYear, call, returned, earlier,
          heap, given, pending, last, playlistAnalysis, procs>>

----------------------------------------------------------------------------
(* Bounds of the model *)

\* Largest number of songs in the candidate store.
MaxStore == 4
\* Largest explicit `limit` option.
MaxLimit == 3
\* Largest absolute value of a coordinate of the vectors given to
\* calculateCosineSimilarity on its own.
MaxCoord == 4
\* The year the wall clock shows at first, and how many new years it may pass.
FirstYear == 2025
MaxNewYears == 1

(* Program constants *)

DefaultLimit == 50
TakeCap == 200

----------------------------------------------------------------------------
(* Optional values *)

None == <<>>
Some(v) == <<v>>
IsSome(o) == o # <<>>
Get(o) == o[1]
OrDefault(o, d) == IF IsSome(o) THEN Get(o) ELSE d

----------------------------------------------------------------------------
(* Exact rational arithmetic standing for the source's number arithmetic *)

Abs(i) == IF i < 0 THEN -i ELSE i

RECURSIVE Gcd(_, _)
Gcd(a, b) == IF b = 0 THEN a ELSE Gcd(b, a % b)

\* The canonical representative of n/d (d # 0): lowest terms, d > 0.
Rat(n, d) ==
    LET g == Gcd(Abs(n), Abs(d))
        s == IF d < 0 THEN -1 ELSE 1
    IN  <<(s * n) \div g, (s * d) \div g>>

RInt(i) == <<i, 1>>
RAdd(a, b) == Rat(a[1] * b[2] + b[1] * a[2], a[2] * b[2])
RSub(a, b) == Rat(a[1] * b[2] - b[1] * a[2], a[2] * b[2])
RMul(a, b) == Rat(a[1] * b[1], a[2] * b[2])
RDiv(a, b) == Rat(a[1] * b[2], a[2] * b[1])
RLt(a, b) == a[1] * b[2] < b[1] * a[2]
RLeq(a, b) == a[1] * b[2] <= b[1] * a[2]
RMax(a, b) == IF RLt(a, b) THEN b ELSE a
RMin(a, b) == IF RLt(b, a) THEN b ELSE a

\* Math.sqrt on the perfect squares the model's vectors produce.
Sqrt(n) == CHOOSE r \in 0..n : r * r = n

Min2(a, b) == IF a < b THEN a ELSE b
Max2(a, b) == IF a > b THEN a ELSE b

----------------------------------------------------------------------------
(* Strings as sequences of characters *)

LowerChar(c) ==
    CASE c = "A" -> "a"
      [] c = "B" -> "b"
      [] c = "C" -> "c"
      [] c = "D" -> "d"
      [] c = "E" -> "e"
      [] c = "F" -> "f"
      [] c = "G" -> "g"
      [] c = "H" -> "h"
      [] c = "I" -> "i"
      [] c = "J" -> "j"
      [] c = "K" -> "k"
      [] c = "L" -> "l"
      [] c = "M" -> "m"
      [] c = "N" -> "n"
      [] c = "O" -> "o"
      [] c = "P" -> "p"
      [] c = "Q" -> "q"
      [] c = "R" -> "r"
      [] c = "S" -> "s"
      [] c = "T" -> "t"
      [] c = "U" -> "u"
      [] c = "V" -> "v"
      [] c = "W" -> "w"
      [] c = "X" -> "x"
      [] c = "Y" -> "y"
      [] c = "Z" -> "z"
      [] OTHER   -> c

\* String.prototype.toLowerCase
ToLowerCase(s) == [i \in 1..Len(s) |-> LowerChar(s[i])]

\* String.prototype.includes
Includes(s, t) ==
    \E i \in 1..(Len(s) - Len(t) + 1) : SubSeq(s, i, i + Len(t) - 1) = t

\* Array.prototype.includes / membership in a list
Member(x, xs) == \E i \in 1..Len(xs) : xs[i] = x

\* Array.prototype.slice(0, n)
Slice0(xs, n) == SubSeq(xs, 1, Min2(n, Len(xs)))

----------------------------------------------------------------------------
(* Dates: a date YYYY-MM-DD is the number YYYYMMDD *)

MkDate(y, m, d) == y * 10000 + m * 100 + d
YearOf(date) == date \div 10000

----------------------------------------------------------------------------
(* The inputs the model draws from *)

Rock == <<"r", "o", "c", "k">>
IndieRock == <<"i", "n", "d", "i", "e", " ", "r", "o", "c", "k">>
PopCap == <<"P", "o", "p">>

\* A row of the Song table, reduced to the columns the ranker reads.
Song(id, art, vec, pop, gen, date) ==
    [spotifyId |-> id, artist |-> art, combinedVector |-> vec,
     popularity |-> pop, genres |-> gen, releaseDate |-> date]

Catalog ==
    { Song("t1", "A", Some(<<3, 4>>), 20, <<Rock>>, Some(MkDate(2000, 6, 15))),
      Song("t2", "A", Some(<<4, 3>>), 80, <<IndieRock, Rock>>, Some(MkDate(1990, 1, 1))),
      Song("t3", "A", Some(<<5, 0>>), 50, <<PopCap>>, Some(MkDate(2000, 12, 31))),
      Song("t4", "B", Some(<<0, 5>>), 100, <<Rock>>, Some(MkDate(2010, 3, 1))),
      Song("t5", "C", Some(<<-3, -4>>), 0, <<>>, None) }

\* Stores: the songs of the table in the order findMany returns them; spotifyId
\* is unique.
RECURSIVE SeqsNoRepeat(_, _)
SeqsNoRepeat(S, n) ==
    IF n = 0 THEN {<<>>}
    ELSE LET shorter == SeqsNoRepeat(S, n - 1)
         IN  shorter \cup
             { Append(q, x) : q \in {r \in shorter : Len(r) = n - 1}, x \in S }

Stores == { s \in SeqsNoRepeat(Catalog, MaxStore) :
              \A i, j \in 1..Len(s) : i # j => s[i].spotifyId # s[j].spotifyId }

QueryVectors == { <<3, 4>>, <<4, 3>> }

----------------------------------------------------------------------------
(* EmbeddingService.calculateCosineSimilarity *)

RECURSIVE SumTo(_, _)
\* sum of f[1..n], the accumulation loop of the source
SumTo(f, n) == IF n = 0 THEN 0 ELSE SumTo(f, n - 1) + f[n]

\* The thrown Error of a length mismatch is LengthError; a rational otherwise.
LengthError == <<>>

\* Mutant: the test for a zero norm answers 1 instead of 0.
calculateCosineSimilarity_ZeroIsOne(vectorA, vectorB) ==
    IF Len(vectorA) # Len(vectorB) THEN LengthError
    ELSE LET n == Len(vectorA)
             dotProduct == SumTo([i \in 1..n |-> vectorA[i] * vectorB[i]], n)
             normA == SumTo([i \in 1..n |-> vectorA[i] * vectorA[i]], n)
             normB == SumTo([i \in 1..n |-> vectorB[i] * vectorB[i]], n)
         IN  IF normA = 0 \/ normB = 0 THEN RInt(1)
             ELSE Rat(dotProduct, Sqrt(normA) * Sqrt(normB))

\* Mutant: the dot product is divided by the norm of vectorA twice.
calculateCosineSimilarity_NormATwice(vectorA, vectorB) ==
    IF Len(vectorA) # Len(vectorB) THEN LengthError
    ELSE LET n == Len(vectorA)
             dotProduct == SumTo([i \in 1..n |-> vectorA[i] * vectorB[i]], n)
             normA == SumTo([i \in 1..n |-> vectorA[i] * vectorA[i]], n)
             normB == SumTo([i \in 1..n |-> vectorB[i] * vectorB[i]], n)
         IN  IF normA = 0 \/ normB = 0 THEN RInt(0)
             ELSE Rat(dotProduct, Sqrt(normA) * Sqrt(normA))

calculateCosineSimilarity(vectorA, vectorB) ==
    IF Len(vectorA) # Len(vectorB) THEN LengthError
    ELSE LET n == Len(vectorA)
             dotProduct == SumTo([i \in 1..n |-> vectorA[i] * vectorB[i]], n)
             normA == SumTo([i \in 1..n |-> vectorA[i] * vectorA[i]], n)
             normB == SumTo([i \in 1..n |-> vectorB[i] * vectorB[i]], n)
         IN  IF normA = 0 \/ normB = 0 THEN RInt(0)
             ELSE Rat(dotProduct, Sqrt(normA) * Sqrt(normB))

----------------------------------------------------------------------------
(* VectorSearchService.findSimilarSongs *)

\* JavaScript truthiness of an optional number: undefined and 0 are falsy.
Truthy(o) == IsSome(o) /\ Get(o) # 0

\* Mutant: the popularityMax branch overwrites the popularity condition instead
\* of spreading the one popularityMin set, and yearMax is compared with the
\* first day of its year.
WhereClause_Overwrite(o) ==
    LET excludeIds == OrDefault(o.excludeIds, <<>>)
    IN  [spotifyIdNotIn |-> IF Len(excludeIds) > 0 THEN Some(excludeIds) ELSE None,
         genresHasSome  |-> IF IsSome(o.genreFilter) /\ Len(Get(o.genreFilter)) > 0
                            THEN o.genreFilter ELSE None,
         popularityGte  |-> IF IsSome(o.popularityMax) THEN None ELSE o.popularityMin,
         popularityLte  |-> o.popularityMax,
         releaseDateGte |-> IF (IsSome(o.yearMin) \/ IsSome(o.yearMax)) /\ Truthy(o.yearMin)
                            THEN Some(MkDate(Get(o.yearMin), 1, 1)) ELSE None,
         releaseDateLte |-> IF (IsSome(o.yearMin) \/ IsSome(o.yearMax)) /\ Truthy(o.yearMax)
                            THEN Some(MkDate(Get(o.yearMax), 12, 31)) ELSE None]

\* The Prisma where clause built from the options; an absent key is None.
WhereClause(o) ==
    LET excludeIds == OrDefault(o.excludeIds, <<>>)
    IN  [spotifyIdNotIn |-> IF Len(excludeIds) > 0 THEN Some(excludeIds) ELSE None,
         genresHasSome  |-> IF IsSome(o.genreFilter) /\ Len(Get(o.genreFilter)) > 0
                            THEN o.genreFilter ELSE None,
         popularityGte  |-> o.popularityMin,
         popularityLte  |-> o.popularityMax,
         releaseDateGte |-> IF (IsSome(o.yearMin) \/ IsSome(o.yearMax)) /\ Truthy(o.yearMin)
                            THEN Some(MkDate(Get(o.yearMin), 1, 1)) ELSE None,
         releaseDateLte |-> IF (IsSome(o.yearMin) \/ IsSome(o.yearMax)) /\ Truthy(o.yearMax)
                            THEN Some(MkDate(Get(o.yearMax), 12, 31)) ELSE None]

\* Whether a row satisfies the where clause (a comparison with NULL is not true).
Matches(song, w) ==
    /\ IsSome(song.combinedVector)
    /\ IsSome(w.spotifyIdNotIn) => ~Member(song.spotifyId, Get(w.spotifyIdNotIn))
    /\ IsSome(w.genresHasSome) =>
          \E i \in 1..Len(song.genres) : Member(song.genres[i], Get(w.genresHasSome))
    /\ IsSome(w.popularityGte) => song.popularity >= Get(w.popularityGte)
    /\ IsSome(w.popularityLte) => song.popularity <= Get(w.popularityLte)
    /\ IsSome(w.releaseDateGte) =>
          IsSome(song.releaseDate) /\ Get(song.releaseDate) >= Get(w.releaseDateGte)
    /\ IsSome(w.releaseDateLte) =>
          IsSome(song.releaseDate) /\ Get(song.releaseDate) <= Get(w.releaseDateLte)

\* The number of rows findMany is asked for.
TakeCount(limit) == Min2(limit * 2, TakeCap)

\* db.song.findMany({ where, take })
FindMany(st, w, take) ==
    Slice0(SelectSeq(st, LAMBDA song : Matches(song, w)), take)

\* The object built for one row by the map callback.
SimilarSong(song, similarity) ==
    [spotifyId |-> song.spotifyId, artist |-> song.artist,
     popularity |-> song.popularity, genres |-> song.genres,
     releaseDate |-> song.releaseDate, similarity |-> similarity]

RECURSIVE InsertBySimilarity_BeforeEqual(_, _)
\* Mutant: x goes in front of the elements whose similarity equals its own.
InsertBySimilarity_BeforeEqual(sorted, x) ==
    IF sorted = <<>> THEN <<x>>
    ELSE IF RLeq(sorted[1].similarity, x.similarity) THEN <<x>> \o sorted
    ELSE <<sorted[1]>> \o InsertBySimilarity_BeforeEqual(Tail(sorted), x)

RECURSIVE InsertBySimilarity(_, _)
\* x goes behind every element whose similarity is not smaller than its own.
InsertBySimilarity(sorted, x) ==
    IF sorted = <<>> THEN <<x>>
    ELSE IF RLt(sorted[1].similarity, x.similarity) THEN <<x>> \o sorted
    ELSE <<sorted[1]>> \o InsertBySimilarity(Tail(sorted), x)

\* Mutant: the sort is left out.
SortBySimilarityDesc_Unsorted(xs) == xs

RECURSIVE SortBySimilarityDesc(_)
\* Array.prototype.sort((a, b) => b.similarity - a.similarity): stable, descending.
SortBySimilarityDesc(xs) ==
    IF xs = <<>> THEN <<>>
    ELSE InsertBySimilarity(SortBySimilarityDesc(SubSeq(xs, 1, Len(xs) - 1)), xs[Len(xs)])

\* The rows findSimilarSongs scores: filtered by the where clause, cut to `take`.
ScoredRows(st, o) ==
    FindMany(st, WhereClause(o), TakeCount(OrDefault(o.limit, DefaultLimit)))

\* The outcome of a call: the returned list, or the Error thrown out of it.
Returned(list) == [error |-> FALSE, list |-> list]
Thrown == [error |-> TRUE, list |-> <<>>]

findSimilarSongs(st, queryVector, o) ==
    LET limit == OrDefault(o.limit, DefaultLimit)
        threshold == OrDefault(o.threshold, RInt(0))
        songs == ScoredRows(st, o)
        sims == [i \in 1..Len(songs) |->
                    calculateCosineSimilarity(queryVector, Get(songs[i].combinedVector))]
    IN  IF \E i \in 1..Len(songs) : sims[i] = LengthError THEN Thrown
        ELSE LET mapped == [i \in 1..Len(songs) |-> SimilarSong(songs[i], sims[i])]
                 kept == SelectSeq(mapped, LAMBDA s : RLeq(threshold, s.similarity))
             IN  Returned(Slice0(SortBySimilarityDesc(kept), limit))

----------------------------------------------------------------------------
(* VectorSearchService.hybridSearch *)

DefaultPopularityWeight == Rat(1, 5)
DefaultGenreBoost == Rat(1, 10)

\* Mutant: a genre matches only when it is equal to a genre of the filter.
GenreMatches_Exact(song, genreFilter) ==
    Cardinality({ i \in 1..Len(song.genres) : Member(song.genres[i], genreFilter) })

\* The number of the song's genres that contain, case-insensitively, some
\* genre of the filter.
GenreMatches(song, genreFilter) ==
    Cardinality({ i \in 1..Len(song.genres) :
        \E j \in 1..Len(genreFilter) :
            Includes(ToLowerCase(song.genres[i]), ToLowerCase(genreFilter[j])) })

\* The value of hybridScore at the end of the map callback, before clamping.
HybridScore(song, o) ==
    LET popularityWeight == OrDefault(o.popularityWeight, DefaultPopularityWeight)
        genreBoost == OrDefault(o.genreBoost, DefaultGenreBoost)
        blended == RAdd(RMul(song.similarity, RSub(RInt(1), popularityWeight)),
                        RMul(Rat(song.popularity, 100), popularityWeight))
    IN  IF IsSome(o.genreFilter) /\ RLt(RInt(0), genreBoost)
        THEN LET genreMatches == GenreMatches(song, Get(o.genreFilter))
             IN  IF genreMatches > 0
                 THEN RAdd(blended,
                           RMul(genreBoost,
                                Rat(genreMatches, Max2(Len(song.genres), 1))))
                 ELSE blended
        ELSE blended

\* Mutant: the score is returned unclamped.
Clamp01_Unclamped(x) == x

\* Math.max(0, Math.min(1, x))
Clamp01(x) == RMax(RInt(0), RMin(RInt(1), x))

hybridSearch(st, queryVector, o) ==
    LET results == findSimilarSongs(st, queryVector, o)
    IN  IF results.error THEN Thrown
        ELSE Returned(SortBySimilarityDesc(
                 [i \in 1..Len(results.list) |->
                     [results.list[i] EXCEPT
                         !.similarity = Clamp01(HybridScore(results.list[i], o))]]))

----------------------------------------------------------------------------
(* VectorSearchService.getDiverseRecommendations *)

DefaultDiversityWeight == Rat(3, 10)
OversampleFactor == 3

\* The options of the inner findSimilarSongs call.
OversampledOptions(o) ==
    [o EXCEPT !.limit =
        Some(Min2(OrDefault(o.limit, DefaultLimit) * OversampleFactor, TakeCap))]

\* Mutant: the artist is not compared.
PairSimilarity_NoArtist(candidate, selectedSong) ==
    LET shared == Cardinality({ i \in 1..Len(candidate.genres) :
                      Member(candidate.genres[i], selectedSong.genres) })
        genreOverlap == Rat(shared, Max2(Len(candidate.genres), 1))
    IN  RDiv(genreOverlap, RInt(2))

\* (artistMatch + genreOverlap) / 2 of a candidate against one selected song.
PairSimilarity(candidate, selectedSong) ==
    LET artistMatch == IF candidate.artist = selectedSong.artist THEN 1 ELSE 0
        shared == Cardinality({ i \in 1..Len(candidate.genres) :
                      Member(candidate.genres[i], selectedSong.genres) })
        genreOverlap == Rat(shared, Max2(Len(candidate.genres), 1))
    IN  RDiv(RAdd(RInt(artistMatch), genreOverlap), RInt(2))

RECURSIVE MinSimilarity_Max(_, _, _)
\* Mutant: the largest similarity to a selected song is kept.
MinSimilarity_Max(candidate, sel, n) ==
    IF n = 0 THEN RInt(0)
    ELSE RMax(MinSimilarity_Max(candidate, sel, n - 1),
              PairSimilarity(candidate, sel[n]))

RECURSIVE MinSimilarity(_, _, _)
\* minSimilarity after the first n selected songs have been visited.
MinSimilarity(candidate, sel, n) ==
    IF n = 0 THEN RInt(1)
    ELSE RMin(MinSimilarity(candidate, sel, n - 1),
              PairSimilarity(candidate, sel[n]))

CombinedScore(candidate, sel, diversityWeight) ==
    LET diversityScore == RSub(RInt(1), MinSimilarity(candidate, sel, Len(sel)))
    IN  RAdd(RMul(candidate.similarity, RSub(RInt(1), diversityWeight)),
             RMul(diversityScore, diversityWeight))

RECURSIVE BestAfter_LastOfTies(_, _, _, _)
\* Mutant: the scan compares with >=, so the last of equal scores wins.
BestAfter_LastOfTies(rem, sel, diversityWeight, n) ==
    IF n = 0 THEN <<1, RInt(-1)>>
    ELSE LET before == BestAfter_LastOfTies(rem, sel, diversityWeight, n - 1)
             combinedScore == CombinedScore(rem[n], sel, diversityWeight)
         IN  IF RLeq(before[2], combinedScore) THEN <<n, combinedScore>> ELSE before

RECURSIVE BestAfter(_, _, _, _)
\* <<bestIndex, bestScore>> after the first n remaining candidates have been
\* visited (indices are 1-based here).
BestAfter(rem, sel, diversityWeight, n) ==
    IF n = 0 THEN <<1, RInt(-1)>>
    ELSE LET before == BestAfter(rem, sel, diversityWeight, n - 1)
             combinedScore == CombinedScore(rem[n], sel, diversityWeight)
         IN  IF RLt(before[2], combinedScore) THEN <<n, combinedScore>> ELSE before

BestIndex(rem, sel, diversityWeight) ==
    BestAfter(rem, sel, diversityWeight, Len(rem))[1]

\* Mutant: the picked candidate is not removed from remaining.
RemoveAt_Keep(xs, i) == xs

\* Array.prototype.splice(i, 1), 1-based
RemoveAt(xs, i) == SubSeq(xs, 1, i - 1) \o SubSeq(xs, i + 1, Len(xs))

----------------------------------------------------------------------------
(* The options the model's calls are made with *)

Options(l, t, e, g, pmin, pmax, ymin, ymax, w, b, d) ==
    [limit |-> l, threshold |-> t, excludeIds |-> e, genreFilter |-> g,
     popularityMin |-> pmin, popularityMax |-> pmax, yearMin |-> ymin,
     yearMax |-> ymax, popularityWeight |-> w, genreBoost |-> b,
     diversityWeight |-> d]

Limits == {None} \cup { Some(l) : l \in 1..MaxLimit }
Thresholds == { None, Some(Rat(-1, 1)), Some(Rat(9, 10)) }
LowThresholds == { None, Some(Rat(-1, 1)) }
ExcludeLists == { None, Some(<<"t1">>) }
GenreFilters == { None, Some(<<>>), Some(<<Rock>>) }
PopularityBounds == { None, Some(50) }
YearMinBounds == { None, Some(0), Some(2000) }
YearMaxBounds == { None, Some(2000) }
Weights == { None, Some(Rat(1, 2)), Some(RInt(1)), Some(RInt(2)) }
Boosts == { None, Some(Rat(1, 2)), Some(Rat(-1, 2)) }
DiversityWeights == { None, Some(RInt(0)), Some(RInt(1)) }

RankOptions ==
    { Options(l, t, e, g, pmin, pmax, ymin, ymax, None, None, None) :
        l \in Limits, t \in Thresholds, e \in ExcludeLists, g \in GenreFilters,
        pmin \in PopularityBounds, pmax \in PopularityBounds,
        ymin \in YearMinBounds, ymax \in YearMaxBounds }

HybridOptions ==
    { Options(l, t, None, g, None, None, None, None, w, b, None) :
        l \in Limits, t \in LowThresholds, g \in GenreFilters,
        w \in Weights, b \in Boosts }

DiverseOptions ==
    { Options(l, t, None, g, None, None, None, None, None, None, d) :
        l \in Limits, t \in LowThresholds, g \in { None, Some(<<Rock>>) },
        d \in DiversityWeights }

NoOptions ==
    Options(None, None, None, None, None, None, None, None, None, None, None)

----------------------------------------------------------------------------
(* The state machine: a store, and one call at a time against it *)

\* No array has been handed to a service; no call has returned.
NoArrays == [heap |-> <<>>, store |-> <<>>]
NoReturn == [fn |-> "none"]

\* No method of the embedding service has been called.
NoCall == [fn |-> "none", arg |-> <<>>]

Init ==
    /\ store \in Stores
    /\ pc = "idle"
    /\ op = "none"
    /\ query = <<>>
    /\ opts = NoOptions
    /\ result = Returned(<<>>)
    /\ candidates = <<>>
    /\ selected = <<>>
    /\ remaining = <<>>
    /\ currentYear = FirstYear
    /\ call = NoCall
    /\ returned = <<>>
    /\ earlier = <<>>
    /\ heap = <<>>
    /\ given = NoArrays
    /\ pending = <<>>
    /\ last = NoReturn
    /\ playlistAnalysis = <<>>
    /\ procs = <<>>

\* A call of findSimilarSongs, from entry to return.
Rank ==
    /\ pc = "idle"
    /\ \E q \in QueryVectors, o \in RankOptions :
          /\ query' = q
          /\ opts' = o
          /\ result' = findSimilarSongs(store, q, o)
    /\ op' = "rank"
    /\ pc' = "done"
    /\ UNCHANGED <<store, candidates, selected, remaining>>
    /\ UNCHANGED evars
    /\ UNCHANGED <<hvars, ivars>>

\* A call of hybridSearch, from entry to return.
HybridRank ==
    /\ pc = "idle"
    /\ \E q \in QueryVectors, o \in HybridOptions :
          /\ query' = q
          /\ opts' = o
          /\ result' = hybridSearch(store, q, o)
    /\ op' = "hybrid"
    /\ pc' = "done"
    /\ UNCHANGED <<store, candidates, selected, remaining>>
    /\ UNCHANGED evars
    /\ UNCHANGED <<hvars, ivars>>

\* getDiverseRecommendations up to the first test of the while loop: the inner
\* search, the early return, the push of the top result.
DiverseStart ==
    /\ pc = "idle"
    /\ \E q \in QueryVectors, o \in DiverseOptions :
          LET found == findSimilarSongs(store, q, OversampledOptions(o))
              limit == OrDefault(o.limit, DefaultLimit)
          IN  /\ query' = q
              /\ opts' = o
              /\ candidates' = found.list
              /\ IF found.error
                 THEN /\ result' = Thrown
                      /\ pc' = "done"
                      /\ UNCHANGED <<selected, remaining>>
                 ELSE IF Len(found.list) <= limit
                 THEN /\ result' = found
                      /\ pc' = "done"
                      /\ UNCHANGED <<selected, remaining>>
                 ELSE /\ selected' = <<found.list[1]>>
                      /\ remaining' = Tail(found.list)
                      /\ pc' = "loop"
                      /\ UNCHANGED result
    /\ op' = "diverse"
    /\ UNCHANGED store
    /\ UNCHANGED evars
    /\ UNCHANGED <<hvars, ivars>>

\* bestIndex at the end of the scan of the current iteration.
LoopBestIndex ==
    BestIndex(remaining, selected,
              OrDefault(opts.diversityWeight, DefaultDiversityWeight))

\* One iteration of the while loop: the scan for bestIndex, push and splice.
DiversePick ==
    /\ pc = "loop"
    /\ Len(selected) < OrDefault(opts.limit, DefaultLimit)
    /\ Len(remaining) > 0
    /\ selected' = Append(selected, remaining[LoopBestIndex])
    /\ remaining' = RemoveAt(remaining, LoopBestIndex)
    /\ UNCHANGED <<store, pc, op, query, opts, result, candidates>>
    /\ UNCHANGED evars
    /\ UNCHANGED <<hvars, ivars>>

\* The while test fails: return selected.
DiverseReturn ==
    /\ pc = "loop"
    /\ ~(Len(selected) < OrDefault(opts.limit, DefaultLimit) /\ Len(remaining) > 0)
    /\ result' = Returned(selected)
    /\ pc' = "done"
    /\ UNCHANGED <<store, op, query, opts, candidates, selected, remaining>>
    /\ UNCHANGED evars
    /\ UNCHANGED <<hvars, ivars>>

\* The caller has taken the result; the service is ready for the next call.
Finish ==
    /\ pc = "done"
    /\ pc' = "idle"
    /\ op' = "none"
    /\ query' = <<>>
    /\ opts' = NoOptions
    /\ result' = Returned(<<>>)
    /\ candidates' = <<>>
    /\ selected' = <<>>
    /\ remaining' = <<>>
    /\ UNCHANGED store
    /\ UNCHANGED evars
    /\ UNCHANGED <<hvars, ivars>>

Next ==
    \/ Rank
    \/ HybridRank
    \/ DiverseStart
    \/ DiversePick
    \/ DiverseReturn
    \/ Finish

Spec == Init /\ [][Next]_vars

----------------------------------------------------------------------------
(* Vocabulary of the properties *)

Limit == OrDefault(opts.limit, DefaultLimit)
Threshold == OrDefault(opts.threshold, RInt(0))

\* The stored song a result was made from.
StoredSong(r) == CHOOSE s \in { store[i] : i \in 1..Len(store) } : s.spotifyId = r.spotifyId

\* The cosine similarity of a stored song to the query of the current call.
Cosine(song) == calculateCosineSimilarity(query, Get(song.combinedVector))

InResult(song) == \E j \in 1..Len(result.list) : result.list[j].spotifyId = song.spotifyId

\* The stored songs that pass the pre-filters of the current call and reach its
\* threshold, whatever their position in the store.
Qualifying ==
    SelectSeq(store, LAMBDA s : Matches(s, WhereClause(opts)) /\ RLeq(Threshold, Cosine(s)))

RankDone == pc = "done" /\ op = "rank" /\ ~result.error
HybridDone == pc = "done" /\ op = "hybrid" /\ ~result.error
DiverseDone == pc = "done" /\ op = "diverse" /\ ~result.error

NonIncreasing(list) ==
    \A i, j \in 1..Len(list) : i < j => RLeq(list[j].similarity, list[i].similarity)

----------------------------------------------------------------------------
\* C1: findSimilarSongs returns the `limit` most similar of ALL stored songs
\* that pass the pre-filters and reach the threshold (all of them when fewer
\* qualify): no qualifying song left out is strictly more similar than a
\* returned one.
C1_RankReturnsTopOfAllQualifying ==
    RankDone =>
        /\ Len(result.list) = Min2(Limit, Len(Qualifying))
        /\ \A i \in 1..Len(Qualifying) :
              ~InResult(Qualifying[i]) =>
                  \A j \in 1..Len(result.list) :
                      RLeq(Cosine(Qualifying[i]), result.list[j].similarity)

\* C2: the list findSimilarSongs returns is in non-increasing order of
\* similarity and every element reaches the threshold.
C2_RankSortedAboveThreshold ==
    RankDone =>
        /\ NonIncreasing(result.list)
        /\ \A i \in 1..Len(result.list) : RLeq(Threshold, result.list[i].similarity)

\* C2 witness: a returned list of three songs with three different
\* similarities that the store did not supply in that order, while a stored
\* song below the threshold was dropped.
C2_Witness ==
    /\ RankDone
    /\ Len(result.list) = 3
    /\ RLt(result.list[2].similarity, result.list[1].similarity)
    /\ RLt(result.list[3].similarity, result.list[2].similarity)
    /\ Len(store) = 4
    /\ store[1].spotifyId # result.list[1].spotifyId
    /\ \E i \in 1..Len(store) : RLt(Cosine(store[i]), Threshold)

C4_RankSimilarityInUnitInterval ==
    RankDone =>
        \A i \in 1..Len(result.list) :
            /\ RLeq(RInt(0), result.list[i].similarity)
            /\ RLeq(result.list[i].similarity, RInt(1))

----------------------------------------------------------------------------
(* The blended score, as the statements about hybridSearch describe it *)

PopularityWeight == OrDefault(opts.popularityWeight, DefaultPopularityWeight)
GenreBoost == OrDefault(opts.genreBoost, DefaultGenreBoost)

Clamped(x) == IF RLt(x, RInt(0)) THEN RInt(0) ELSE IF RLt(RInt(1), x) THEN RInt(1) ELSE x

\* s*(1-w) + (popularity/100)*w
Blend(song) ==
    RAdd(RMul(Cosine(song), RSub(RInt(1), PopularityWeight)),
         RMul(Rat(song.popularity, 100), PopularityWeight))

\* matched: the song's genres that are members of genreFilter.
MatchedMembers(song) ==
    Cardinality({ i \in 1..Len(song.genres) : Member(song.genres[i], Get(opts.genreFilter)) })

\* matched: the song's genres whose lower-cased label contains the lower-cased
\* form of some entry of genreFilter.
MatchedContaining(song) ==
    Cardinality({ i \in 1..Len(song.genres) :
        \E j \in 1..Len(Get(opts.genreFilter)) :
            Includes(ToLowerCase(song.genres[i]), ToLowerCase(Get(opts.genreFilter)[j])) })

BoostOf(matched, total) == RMul(GenreBoost, Rat(matched, Max2(total, 1)))

\* The score of C6 as claimed: b whenever a genreFilter was supplied and a
\* genre of the song is a member of it.
ScoreByMembership(song) ==
    Clamped(RAdd(Blend(song),
                 IF IsSome(opts.genreFilter) /\ MatchedMembers(song) > 0
                 THEN BoostOf(MatchedMembers(song), Len(song.genres))
                 ELSE RInt(0)))

\* The unclamped score of C6 as amended: b only for a positive genreBoost, and
\* matched counts case-insensitive containment.
RawScoreByContainment(song) ==
    RAdd(Blend(song),
         IF /\ IsSome(opts.genreFilter)
            /\ RLt(RInt(0), GenreBoost)
            /\ MatchedContaining(song) > 0
         THEN BoostOf(MatchedContaining(song), Len(song.genres))
         ELSE RInt(0))

ScoreByContainment(song) == Clamped(RawScoreByContainment(song))

----------------------------------------------------------------------------
\* C5: every result of hybridSearch has a blended score in [0,1], for every
\* popularityWeight, genreBoost and popularity, and the returned list is in
\* non-increasing order of that score.
C5_HybridScoreInUnitIntervalSorted ==
    HybridDone =>
        /\ \A i \in 1..Len(result.list) :
              /\ RLeq(RInt(0), result.list[i].similarity)
              /\ RLeq(result.list[i].similarity, RInt(1))
        /\ NonIncreasing(result.list)

\* C5 witness: a returned list in which one blended score was above 1 and
\* another below 0 before the clamp, and which is not in the order of the
\* cosine similarities.
C5_Witness ==
    /\ HybridDone
    /\ \E i \in 1..Len(result.list) :
          RLt(RInt(1), RawScoreByContainment(StoredSong(result.list[i])))
    /\ \E i \in 1..Len(result.list) :
          RLt(RawScoreByContainment(StoredSong(result.list[i])), RInt(0))
    /\ \E i, j \in 1..Len(result.list) :
          /\ i < j
          /\ RLt(Cosine(StoredSong(result.list[i])), Cosine(StoredSong(result.list[j])))

\* C6 (as claimed): the score of every song hybridSearch returns is
\* clamp01(s*(1-w) + (popularity/100)*w + b) with b = genreBoost * matched /
\* max(total,1) when a genreFilter was supplied and matched > 0, else 0, where
\* matched counts the song's genres that are members of genreFilter.
C6_HybridScoreByMembership ==
    HybridDone =>
        \A i \in 1..Len(result.list) :
            result.list[i].similarity = ScoreByMembership(StoredSong(result.list[i]))

\* C6 (amended): the score of every song hybridSearch returns is
\* clamp01(s*(1-w) + (popularity/100)*w + b) with b = genreBoost * matched /
\* max(total,1) when a genreFilter was supplied, genreBoost > 0 and matched > 0,
\* else 0, where matched counts the song's genres whose lower-cased label
\* contains the lower-cased form of some genreFilter entry.
C6_HybridScoreByContainment ==
    HybridDone =>
        \A i \in 1..Len(result.list) :
            result.list[i].similarity = ScoreByContainment(StoredSong(result.list[i]))

\* C6 witness: a returned song with a genre that contains a filter genre
\* without being equal to it, boosted to a score strictly between 0 and 1.
C6_Witness ==
    /\ HybridDone
    /\ IsSome(opts.genreFilter)
    /\ RLt(RInt(0), GenreBoost)
    /\ \E i \in 1..Len(result.list) :
          LET song == StoredSong(result.list[i])
          IN  /\ MatchedContaining(song) > MatchedMembers(song)
              /\ RLt(RInt(0), RawScoreByContainment(song))
              /\ RLt(RawScoreByContainment(song), RInt(1))
              /\ RLt(Blend(song), result.list[i].similarity)

\* C7: hybridSearch blends after thresholding and before truncating to
\* `limit`: no stored song that passes the pre-filters and the threshold and is
\* left out of the result has a strictly higher blended score than a returned
\* song.
C7_HybridBlendsBeforeTruncation ==
    HybridDone =>
        \A i \in 1..Len(Qualifying) :
            ~InResult(Qualifying[i]) =>
                \A j \in 1..Len(result.list) :
                    RLeq(ScoreByContainment(Qualifying[i]), result.list[j].similarity)

----------------------------------------------------------------------------
(* The greedy score, as the statements about getDiverseRecommendations
   describe it *)

DiversityWeight == OrDefault(opts.diversityWeight, DefaultDiversityWeight)

SameArtist(c, s) == IF c.artist = s.artist THEN 1 ELSE 0

\* The fraction of c's genres that are genres of s (0 when c has none).
GenreOverlapFraction(c, s) ==
    Rat(Cardinality({ i \in 1..Len(c.genres) : Member(c.genres[i], s.genres) }),
        Max2(Len(c.genres), 1))

\* 0.5*sameArtist + 0.5*genreOverlapFraction
Redundancy(c, s) ==
    RAdd(RMul(Rat(1, 2), RInt(SameArtist(c, s))), RMul(Rat(1, 2), GenreOverlapFraction(c, s)))

\* 1 - min over the already-selected results
DiversityScore(c) ==
    LET values == { Redundancy(c, selected[i]) : i \in 1..Len(selected) }
        least == CHOOSE v \in values : \A u \in values : RLeq(v, u)
    IN  RSub(RInt(1), least)

GreedyScore(c) ==
    RAdd(RMul(c.similarity, RSub(RInt(1), DiversityWeight)),
         RMul(DiversityScore(c), DiversityWeight))

\* The greedy loop has appended a pick to selected in this step.
Picked == pc = "loop" /\ selected' # selected

----------------------------------------------------------------------------
\* C8: in getDiverseRecommendations (diversityWeight in [0,1]), every pick
\* after the first is a remaining candidate that maximizes
\* score*(1-diversityWeight) + diversityScore*diversityWeight over all
\* remaining candidates, diversityScore being 1 - min over the already-selected
\* results of (0.5*sameArtist + 0.5*genreOverlapFraction); among equal
\* maximizers the earliest in similarity order (the order of `remaining`) is
\* picked.
C8_GreedyPickMaximizes ==
    [][Picked =>
        /\ NonIncreasing(remaining)
        /\ \E k \in 1..Len(remaining) :
              /\ selected' = Append(selected, remaining[k])
              /\ \A m \in 1..Len(remaining) :
                    RLeq(GreedyScore(remaining[m]), GreedyScore(remaining[k]))
              /\ \A m \in 1..(k - 1) :
                    RLt(GreedyScore(remaining[m]), GreedyScore(remaining[k]))]_vars

\* C8 witness: three songs have been selected, the third against two selected
\* songs, and a less similar song was picked before a more similar one.
C8_Witness ==
    /\ pc = "loop"
    /\ Len(selected) = 3
    /\ \E i, j \in 2..3 :
          i < j /\ RLt(selected[i].similarity, selected[j].similarity)

C9_Output ==
    DiverseDone =>
        /\ Len(result.list) > 0 =>
              /\ result.list[1] = candidates[1]
              /\ \A i \in 1..Len(candidates) :
                    RLeq(candidates[i].similarity, result.list[1].similarity)
        /\ \A i, j \in 1..Len(result.list) :
              i # j => result.list[i].spotifyId # result.list[j].spotifyId
        /\ \A i \in 1..Len(result.list) :
              \E j \in 1..Len(candidates) : candidates[j] = result.list[i]
        /\ Len(candidates) <= Min2(3 * Limit, 200)
        /\ Len(result.list) = Min2(Limit, Len(candidates))

C9_Variant == (pc = "loop" /\ pc' = "loop") => Len(remaining') < Len(remaining)

\* In the loop a step is always possible: the loop test fails and the method
\* returns, or the scan ends with an index of `remaining`.
C9_CanStep ==
    (pc = "loop" /\ Len(selected) < Limit /\ Len(remaining) > 0) =>
        LoopBestIndex \in 1..Len(remaining)

\* C9: getDiverseRecommendations terminates (in the loop a step is always
\* possible and every iteration shortens `remaining`), and its output (a) starts
\* with the most similar candidate of the scored pool, (b) holds no candidate
\* twice, (c) holds only candidates of the scored pool, which has at most
\* min(3*limit, 200) elements, and (d) has length min(limit, pool size).
C9_DiverseTerminatesWithOutput ==
    /\ [](C9_Output /\ C9_CanStep)
    /\ [][C9_Variant]_vars

\* C9 witness: a call whose greedy loop ran returns three songs that are not
\* the three most similar candidates in order.
C9_Witness ==
    /\ DiverseDone
    /\ Len(candidates) > Limit
    /\ Len(result.list) = 3
    /\ result.list # SubSeq(candidates, 1, 3)

\* The scored pool consists of several candidates by one artist and exactly
\* one candidate, candidates[d], by a different artist.
OneOutsider(d) ==
    /\ d \in 1..Len(candidates)
    /\ Len(candidates) >= 3
    /\ \A i \in 1..Len(candidates) :
          i # d => candidates[i].artist # candidates[d].artist
    /\ \A i, j \in 1..Len(candidates) :
          (i # d /\ j # d) => candidates[i].artist = candidates[j].artist

AmongFirstTwo(c) ==
    \E k \in 1..2 : k <= Len(result.list) /\ result.list[k].spotifyId = c.spotifyId

----------------------------------------------------------------------------
(* The numbers of the embedding service                                     *)
(*                                                                          *)
(* normalizeVector divides by a square root that is irrational for almost   *)
(* every input, so a number of the embedding service is a pair <<r, s>>     *)
(* that stands for r / sqrt(s), with r and s exact rationals and s > 0; an  *)
(* ordinary rational has s = 1.  NaN is the pair whose r is 0/0.            *)

NaN == <<<<0, 0>>, <<1, 1>>>>
Num(r) == <<r, <<1, 1>>>>
IsNaN(x) == x[1][2] = 0
Zero == Num(RInt(0))
One == Num(RInt(1))

\* 0 has one representation.
Canon(r, s) == IF r[1] = 0 THEN Zero ELSE <<r, s>>

\* a + b; the sums the service forms are of numbers under the same root.
NAdd(a, b) ==
    IF IsNaN(a) \/ IsNaN(b) THEN NaN
    ELSE IF a = Zero THEN b
    ELSE IF b = Zero THEN a
    ELSE CASE a[2] = b[2] -> Canon(RAdd(a[1], b[1]), a[2])

\* a * b
NMul(a, b) ==
    IF IsNaN(a) \/ IsNaN(b) THEN NaN
    ELSE Canon(RMul(a[1], b[1]), RMul(a[2], b[2]))

\* a / q for a rational q # 0
NDiv(a, q) == IF IsNaN(a) THEN NaN ELSE Canon(RDiv(a[1], q), a[2])

\* a / Math.sqrt(q) for a rational q > 0
NDivSqrt(a, q) == IF IsNaN(a) THEN NaN ELSE Canon(a[1], RMul(a[2], q))

\* a * a of a number that is not NaN: a rational
Square(a) == RDiv(RMul(a[1], a[1]), a[2])

\* Two numbers are the same value (NaN taken as one value).
SameNumber(a, b) ==
    IF IsNaN(a) \/ IsNaN(b) THEN IsNaN(a) /\ IsNaN(b)
    ELSE /\ (a[1][1] > 0) = (b[1][1] > 0)
         /\ (a[1][1] < 0) = (b[1][1] < 0)
         /\ Square(a) = Square(b)

SameVector(v, w) ==
    /\ Len(v) = Len(w)
    /\ \A i \in 1..Len(v) : SameNumber(v[i], w[i])

HasNaN(v) == \E i \in 1..Len(v) : IsNaN(v[i])

\* new Array(n).fill(0)
Zeros(n) == [i \in 1..n |-> Zero]

\* vector[i] ?? 0, with i counted from 1
At(vector, i) == IF i <= Len(vector) THEN vector[i] ELSE Zero

----------------------------------------------------------------------------
(* EmbeddingService: the normalizers *)

\* a + b over the least common denominator, which keeps the intermediate
\* products small.
RSum(a, b) ==
    LET g == Gcd(a[2], b[2])
    IN  Rat(a[1] * (b[2] \div g) + b[1] * (a[2] \div g), (a[2] \div g) * b[2])

RECURSIVE SumSquaresBetween(_, _, _)
\* The sum of val * val over the entries lo..hi.  The reduce of the source adds
\* from left to right; exact addition is associative, and the sum is formed
\* by halves here.
SumSquaresBetween(vector, lo, hi) ==
    IF lo > hi THEN RInt(0)
    ELSE IF lo = hi THEN Square(vector[lo])
    ELSE LET mid == (lo + hi) \div 2
         IN  RSum(SumSquaresBetween(vector, lo, mid),
                  SumSquaresBetween(vector, mid + 1, hi))

\* vector.reduce((sum, val) => sum + val * val, 0)
SumSquares(vector) == SumSquaresBetween(vector, 1, Len(vector))

\* normalizeVector: with a NaN entry the norm is NaN, NaN === 0 is false and
\* every val / NaN is NaN; with norm 0 the argument itself is returned.
normalizeVector(vector) ==
    IF HasNaN(vector) THEN [i \in 1..Len(vector) |-> NaN]
    ELSE LET normSquared == SumSquares(vector)
         IN  IF normSquared = RInt(0) THEN vector
             ELSE [i \in 1..Len(vector) |-> NDivSqrt(vector[i], normSquared)]

\* Math.max(0, Math.min(1, x)) of a rational x
Clamp(x) == RMax(RInt(0), RMin(RInt(1), x))

normalizeLoudness(loudness) == Clamp(RDiv(RAdd(loudness, RInt(60)), RInt(60)))

normalizeTempo(tempo) == Clamp(RDiv(RSub(tempo, RInt(50)), RInt(150)))

normalizeDuration(durationMs) ==
    LET minutes == RDiv(durationMs, RInt(60000))
    IN  Clamp(RDiv(RSub(minutes, RInt(1)), RInt(9)))

Digits == { "0", "1", "2", "3", "4", "5", "6", "7", "8", "9" }

DigitValue(c) ==
    CASE c = "0" -> 0 [] c = "1" -> 1 [] c = "2" -> 2 [] c = "3" -> 3
      [] c = "4" -> 4 [] c = "5" -> 5 [] c = "6" -> 6 [] c = "7" -> 7
      [] c = "8" -> 8 [] c = "9" -> 9

\* The number written by the two digits at positions i and i + 1, if they are
\* preceded by a hyphen.
TwoDigitsAfterHyphen(s, i) ==
    IF s[i] = "-" /\ s[i + 1] \in Digits /\ s[i + 2] \in Digits
    THEN Some(10 * DigitValue(s[i + 1]) + DigitValue(s[i + 2]))
    ELSE None

\* new Date(releaseDate).getFullYear() for the date-only forms YYYY, YYYY-MM
\* and YYYY-MM-DD (read as UTC; the service's time zone is taken to be UTC);
\* every other string gives an Invalid Date, whose getFullYear() is NaN: None.
GetFullYear(releaseDate) ==
    LET s == releaseDate
        yearOk == Len(s) >= 4 /\ \A i \in 1..4 : s[i] \in Digits
        year == 1000 * DigitValue(s[1]) + 100 * DigitValue(s[2])
                  + 10 * DigitValue(s[3]) + DigitValue(s[4])
        month == TwoDigitsAfterHyphen(s, 5)
        day == TwoDigitsAfterHyphen(s, 8)
        monthOk == IsSome(month) /\ Get(month) \in 1..12
        dayOk == IsSome(day) /\ Get(day) \in 1..31
    IN  IF ~yearOk THEN None
        ELSE IF Len(s) = 4 THEN Some(year)
        ELSE IF Len(s) = 7 /\ monthOk THEN Some(year)
        ELSE IF Len(s) = 10 /\ monthOk /\ dayOk THEN Some(year)
        ELSE None

\* The year the release years are measured from.
YearOrigin == 1950

\* normalizeYear, with the wall-clock year read by new Date().getFullYear()
\* as yearNow.  Neither Date constructor throws, so the catch block is never
\* entered; a NaN year goes through the subtraction, the division, Math.min
\* and Math.max as NaN.
normalizeYear(releaseDate, yearNow) ==
    LET year == GetFullYear(releaseDate)
    IN  IF year = None THEN NaN
        ELSE Num(Clamp(Rat(Get(year) - YearOrigin, yearNow - YearOrigin)))

----------------------------------------------------------------------------
(* EmbeddingService.createAudioFeatureVector *)

createAudioFeatureVector(audioFeatures) ==
    << Num(audioFeatures.acousticness),
       Num(audioFeatures.danceability),
       Num(audioFeatures.energy),
       Num(audioFeatures.instrumentalness),
       Num(audioFeatures.liveness),
       Num(normalizeLoudness(audioFeatures.loudness)),
       Num(audioFeatures.speechiness),
       Num(normalizeTempo(audioFeatures.tempo)),
       Num(audioFeatures.valence),
       Num(audioFeatures.mode),
       Num(RDiv(audioFeatures.key, RInt(11))),
       Num(RDiv(audioFeatures.time_signature, RInt(7))) >>

----------------------------------------------------------------------------
(* EmbeddingService.createGenreVector *)

\* A row of the table, written in tenths.
Tenths(row) == [i \in 1..Len(row) |-> Num(Rat(row[i], 10))]

Unknown == <<"u", "n", "k", "n", "o", "w", "n">>

GENRE_EMBEDDINGS ==
    <<"p", "o", "p">> :> Tenths(<<10, 8, 6, 5, 7, 0, 0, 0, 0, 0>>) @@
    <<"d", "a", "n", "c", "e", " ", "p", "o", "p">> :> Tenths(<<10, 9, 8, 6, 8, 0, 0, 0, 0, 0>>) @@
    <<"e", "l", "e", "c", "t", "r", "o", "p", "o", "p">> :> Tenths(<<9, 8, 7, 8, 9, 0, 0, 0, 0, 0>>) @@
    <<"r", "o", "c", "k">> :> Tenths(<<0, 0, 0, 0, 0, 10, 8, 6, 5, 7>>) @@
    <<"a", "l", "t", "e", "r", "n", "a", "t", "i", "v", "e", " ", "r", "o", "c", "k">> :> Tenths(<<0, 0, 0, 0, 0, 9, 8, 7, 6, 6>>) @@
    <<"i", "n", "d", "i", "e", " ", "r", "o", "c", "k">> :> Tenths(<<0, 0, 0, 0, 0, 8, 9, 8, 7, 5>>) @@
    <<"h", "a", "r", "d", " ", "r", "o", "c", "k">> :> Tenths(<<0, 0, 0, 0, 0, 10, 7, 5, 9, 8>>) @@
    <<"e", "l", "e", "c", "t", "r", "o", "n", "i", "c">> :> Tenths(<<2, 9, 8, 10, 7, 0, 0, 0, 0, 0>>) @@
    <<"h", "o", "u", "s", "e">> :> Tenths(<<3, 10, 9, 9, 8, 0, 0, 0, 0, 0>>) @@
    <<"t", "e", "c", "h", "n", "o">> :> Tenths(<<1, 9, 8, 10, 6, 0, 0, 0, 0, 0>>) @@
    <<"e", "d", "m">> :> Tenths(<<4, 10, 10, 8, 9, 0, 0, 0, 0, 0>>) @@
    <<"h", "i", "p", " ", "h", "o", "p">> :> Tenths(<<3, 8, 7, 2, 6, 0, 0, 0, 0, 0>>) @@
    <<"r", "a", "p">> :> Tenths(<<2, 7, 6, 1, 5, 0, 0, 0, 0, 0>>) @@
    <<"t", "r", "a", "p">> :> Tenths(<<4, 9, 8, 3, 7, 0, 0, 0, 0, 0>>) @@
    <<"r", "&", "b">> :> Tenths(<<6, 7, 6, 3, 8, 0, 0, 0, 0, 0>>) @@
    <<"s", "o", "u", "l">> :> Tenths(<<7, 6, 7, 2, 9, 0, 0, 0, 0, 0>>) @@
    <<"f", "u", "n", "k">> :> Tenths(<<8, 9, 8, 4, 8, 0, 0, 0, 0, 0>>) @@
    <<"u", "n", "k", "n", "o", "w", "n">> :> Tenths(<<5, 5, 5, 5, 5, 5, 5, 5, 5, 5>>)

Constructor == <<"c", "o", "n", "s", "t", "r", "u", "c", "t", "o", "r">>
ProtoName == <<"_", "_", "p", "r", "o", "t", "o", "_", "_">>

\* GENRE_EMBEDDINGS is an object literal, so a key it does not own is looked up
\* in Object.prototype.  The inherited names that are their own lower-case
\* form are 'constructor' (the function Object: length 1, no element 0, so
\* that genreEmbedding[0] ?? 0 is 0) and '__proto__' (Object.prototype: no
\* length, so that Math.min(undefined, 50) is NaN and the loop body never
\* runs).  Each is written as the row that has the same effect on the loop.
InheritedProperties ==
    Constructor :> <<Zero>> @@
    ProtoName :> <<>>

\* GENRE_EMBEDDINGS[genreKey] ?? GENRE_EMBEDDINGS['unknown']
GenreEmbedding(genreKey) ==
    IF genreKey \in DOMAIN GENRE_EMBEDDINGS THEN GENRE_EMBEDDINGS[genreKey]
    ELSE IF genreKey \in DOMAIN InheritedProperties THEN InheritedProperties[genreKey]
    ELSE GENRE_EMBEDDINGS[Unknown]

\* The length of the genre vector.
GenreDimensions == 50

RECURSIVE GenreSum(_, _, _)
\* vector[i] after the first k genres have been added, i counted from 1
GenreSum(genres, k, i) ==
    IF k = 0 THEN Zero
    ELSE LET genreEmbedding == GenreEmbedding(ToLowerCase(genres[k]))
             before == GenreSum(genres, k - 1, i)
         IN  IF i <= Min2(Len(genreEmbedding), GenreDimensions)
             THEN NAdd(before, NDiv(At(genreEmbedding, i), RInt(Len(genres))))
             ELSE before

\* Mutant: the vector has the length of a row of the table.
createGenreVector_TableRow(genres) ==
    IF Len(genres) = 0 THEN Zeros(10)
    ELSE normalizeVector([i \in 1..10 |-> GenreSum(genres, Len(genres), i)])

createGenreVector(genres) ==
    IF Len(genres) = 0 THEN Zeros(GenreDimensions)
    ELSE normalizeVector([i \in 1..GenreDimensions |-> GenreSum(genres, Len(genres), i)])

----------------------------------------------------------------------------
(* EmbeddingService.createCombinedVector *)

\* The length of the combined vector and of the playlist vector.
Dimensions == 128
\* How many coordinates of the genre vector go into the combined vector.
GenrePrefix == 20

\* JavaScript truthiness of string | null: null and '' are falsy.
TruthyString(o) == IsSome(o) /\ Len(Get(o)) > 0

\* Mutant: the first two products change places.
InteractionGroup_Swapped(audioVector) ==
    LET audioEnergy == At(audioVector, 3)
        danceability == At(audioVector, 2)
        valence == At(audioVector, 9)
    IN  << NMul(valence, audioEnergy),
           NMul(audioEnergy, danceability),
           NMul(At(audioVector, 1), At(audioVector, 4)),
           Zero >>

\* The four numbers one turn of the padding loop pushes.
InteractionGroup(audioVector) ==
    LET audioEnergy == At(audioVector, 3)
        danceability == At(audioVector, 2)
        valence == At(audioVector, 9)
    IN  << NMul(audioEnergy, danceability),
           NMul(valence, audioEnergy),
           NMul(At(audioVector, 1), At(audioVector, 4)),
           Zero >>

RECURSIVE Pad(_, _)
\* while (combined.length < 128) combined.push(...group)
Pad(combined, group) ==
    IF Len(combined) < Dimensions THEN Pad(combined \o group, group) ELSE combined

MetadataFeatures(track, yearNow) ==
    << Num(Rat(track.popularity, 100)),
       normalizeYear(track.album.release_date, yearNow),
       Num(normalizeDuration(RInt(track.duration_ms))),
       IF TruthyString(track.preview_url) THEN One ELSE Zero >>

\* combined when the padding loop has ended, before slice and normalizeVector.
Combined(songMetadata, yearNow) ==
    LET audioVector == createAudioFeatureVector(songMetadata.audioFeatures)
        genreVector == createGenreVector(songMetadata.genres)
    IN  Pad(audioVector \o Slice0(genreVector, GenrePrefix)
                        \o MetadataFeatures(songMetadata.track, yearNow),
            InteractionGroup(audioVector))

createCombinedVector(songMetadata, yearNow) ==
    normalizeVector(Slice0(Combined(songMetadata, yearNow), Dimensions))

----------------------------------------------------------------------------
(* EmbeddingService.createPlaylistVector *)

RECURSIVE PlaylistSum_ByPosition(_, _, _)
\* Mutant: the k-th vector is added k times.
PlaylistSum_ByPosition(songVectors, k, i) ==
    IF k = 0 THEN Zero
    ELSE NAdd(PlaylistSum_ByPosition(songVectors, k - 1, i),
              NDiv(NMul(Num(RInt(k)), At(songVectors[k], i)), RInt(Len(songVectors))))

RECURSIVE PlaylistSum(_, _, _)
\* avgVector[i] after the first k vectors have been added, i counted from 1
PlaylistSum(songVectors, k, i) ==
    IF k = 0 THEN Zero
    ELSE NAdd(PlaylistSum(songVectors, k - 1, i),
              NDiv(At(songVectors[k], i), RInt(Len(songVectors))))

\* Mutant: the dimension is 128 whatever the first vector.
createPlaylistVector_Fixed(songVectors) ==
    IF Len(songVectors) = 0 THEN Zeros(Dimensions)
    ELSE normalizeVector([i \in 1..Dimensions |->
                             PlaylistSum(songVectors, Len(songVectors), i)])

\* Mutant: the vector for no songs has the length of the genre vector.
createPlaylistVector_EmptyGenreSized(songVectors) ==
    IF Len(songVectors) = 0 THEN Zeros(GenreDimensions)
    ELSE LET dimensions == Len(songVectors[1])
         IN  normalizeVector([i \in 1..dimensions |->
                                 PlaylistSum(songVectors, Len(songVectors), i)])

createPlaylistVector(songVectors) ==
    IF Len(songVectors) = 0 THEN Zeros(Dimensions)
    ELSE LET dimensions == Len(songVectors[1])
         IN  normalizeVector([i \in 1..dimensions |->
                                 PlaylistSum(songVectors, Len(songVectors), i)])

----------------------------------------------------------------------------
(* The ranker over stores whose vectors differ in length or are all zero,   *)
(* and calculateCosineSimilarity called on its own                          *)

\* Rows with a vector of three coordinates and with an all-zero vector.
ShapeCatalog ==
    { Song("t1", "A", Some(<<3, 4>>), 20, <<Rock>>, Some(MkDate(2000, 6, 15))),
      Song("t3", "A", Some(<<5, 0>>), 50, <<PopCap>>, Some(MkDate(2000, 12, 31))),
      Song("t6", "D", Some(<<1, 2, 2>>), 50, <<Rock>>, Some(MkDate(2005, 5, 5))),
      Song("t7", "D", Some(<<0, 0>>), 50, <<Rock>>, Some(MkDate(2005, 5, 5))) }

ShapeStores == { s \in SeqsNoRepeat(ShapeCatalog, MaxStore) :
                   \A i, j \in 1..Len(s) : i # j => s[i].spotifyId # s[j].spotifyId }

ShapeQueries == { <<3, 4>>, <<0, 0>>, <<1, 2, 2>> }

ShapeVectors == { <<3, 4>>, <<5, 0>>, <<-3, -4>>, <<0, 0>>, <<1, 2, 2>>, <<0, 0, 0>> }

ShapeOptions ==
    { Options(l, t, e, None, None, None, None, None, None, None, None) :
        l \in { None, Some(1) }, t \in LowThresholds, e \in { None, Some(<<"t6">>) } }

InitShape ==
    /\ store \in ShapeStores
    /\ pc = "idle"
    /\ op = "none"
    /\ query = <<>>
    /\ opts = NoOptions
    /\ result = Returned(<<>>)
    /\ candidates = <<>>
    /\ selected = <<>>
    /\ remaining = <<>>
    /\ currentYear = FirstYear
    /\ call = NoCall
    /\ returned = <<>>
    /\ earlier = <<>>
    /\ heap = <<>>
    /\ given = NoArrays
    /\ pending = <<>>
    /\ last = NoReturn
    /\ playlistAnalysis = <<>>
    /\ procs = <<>>

\* A call of findSimilarSongs, from entry to return or throw.
RankShape ==
    /\ pc = "idle"
    /\ call = NoCall
    /\ \E q \in ShapeQueries, o \in ShapeOptions :
          /\ query' = q
          /\ opts' = o
          /\ result' = findSimilarSongs(store, q, o)
    /\ op' = "rank"
    /\ pc' = "done"
    /\ UNCHANGED <<store, candidates, selected, remaining>>
    /\ UNCHANGED evars
    /\ UNCHANGED <<hvars, ivars>>

ShapeHybridOptions ==
    { Options(l, t, None, None, None, None, None, None, w, None, None) :
        l \in { None, Some(2) }, t \in LowThresholds, w \in { None, Some(RInt(1)) } }

\* A call of hybridSearch, from entry to return or throw.
HybridShape ==
    /\ pc = "idle"
    /\ call = NoCall
    /\ \E q \in ShapeQueries, o \in ShapeHybridOptions :
          /\ query' = q
          /\ opts' = o
          /\ result' = hybridSearch(store, q, o)
    /\ op' = "hybrid"
    /\ pc' = "done"
    /\ UNCHANGED <<store, candidates, selected, remaining>>
    /\ UNCHANGED evars
    /\ UNCHANGED <<hvars, ivars>>

\* A call of calculateCosineSimilarity with two vectors of V.
CallCosine(V) ==
    /\ pc = "idle"
    /\ call = NoCall
    /\ \E a \in V, b \in V :
          /\ call' = [fn |-> "calculateCosineSimilarity", arg |-> <<a, b>>]
          /\ returned' = calculateCosineSimilarity(a, b)
    /\ UNCHANGED <<currentYear, earlier>>
    /\ UNCHANGED rvars
    /\ UNCHANGED <<hvars, ivars>>

\* The caller has taken what the embedding service returned.
Forget ==
    /\ call # NoCall
    /\ call' = NoCall
    /\ returned' = <<>>
    /\ earlier' = <<>>
    /\ UNCHANGED currentYear
    /\ UNCHANGED rvars
    /\ UNCHANGED <<hvars, ivars>>

NextShape ==
    \/ RankShape
    \/ HybridShape
    \/ CallCosine(ShapeVectors)
    \/ Forget
    \/ Finish

SpecShape == InitShape /\ [][NextShape]_vars

CosineCalled == call.fn = "calculateCosineSimilarity"

\* The rank call is over, with a list or with an error.
RankOver == pc = "done" /\ op = "rank"

\* The stored songs that pass the pre-filters of the current call.
Candidates == SelectSeq(store, LAMBDA s : Matches(s, WhereClause(opts)))

Mismatched(song) == Len(Get(song.combinedVector)) # Len(query)

\* C11: calculateCosineSimilarity(a, b) throws whenever the lengths of a and b
\* differ, and a rank call fails as a whole as soon as one stored candidate
\* (a song that passes the pre-filters) has a vector whose length differs from
\* the query's.
C11_MismatchedCandidateFailsRank ==
    /\ (CosineCalled /\ Len(call.arg[1]) # Len(call.arg[2])) => returned = LengthError
    /\ (RankOver /\ \E i \in 1..Len(Candidates) : Mismatched(Candidates[i]))
          => (result.error /\ result.list = <<>>)

\* What does hold of the code: the call fails exactly when one of the rows the
\* query fetched has a vector of another length than the query.
FetchedMismatchFailsRank ==
    RankOver => (result.error <=> \E i \in 1..Len(ScoredRows(store, opts)) :
                                      Mismatched(ScoredRows(store, opts)[i]))

AllZero(v) == \A i \in 1..Len(v) : v[i] = 0

\* C12: calculateCosineSimilarity(a, b) is exactly 0 whenever a or b is all
\* zero (lengths equal); a rank call with an all-zero query gives every
\* candidate it returns the similarity 0, and an all-zero candidate has the
\* similarity 0 whatever the query.
C12_ZeroVectorScoresZero ==
    /\ (/\ CosineCalled
        /\ Len(call.arg[1]) = Len(call.arg[2])
        /\ (AllZero(call.arg[1]) \/ AllZero(call.arg[2])))
          => returned = RInt(0)
    /\ RankDone =>
          \A j \in 1..Len(result.list) :
             (AllZero(query) \/ AllZero(Get(StoredSong(result.list[j]).combinedVector)))
                => result.list[j].similarity = RInt(0)

\* A rank call with an all-zero query has returned two candidates, one of them
\* with a vector that is not zero.
C12_Witness ==
    /\ RankDone
    /\ AllZero(query)
    /\ Len(result.list) >= 2
    /\ \E j \in 1..Len(result.list) :
          ~AllZero(Get(StoredSong(result.list[j]).combinedVector))

----------------------------------------------------------------------------
(* The embedding service on its own: one call at a time, and the wall clock *)

IsSquare(n) == \E r \in 0..n : r * r = n

\* Vectors of two and of three integer coordinates with an integer norm.
CosineVectors ==
    { v \in UNION { [1..d -> -MaxCoord..MaxCoord] : d \in {2, 3} } :
        IsSquare(SumTo([i \in 1..Len(v) |-> v[i] * v[i]], Len(v))) }

AudioFeatures(ac, da, en, ins, li, lo, sp, te, va, mo, ke, ts) ==
    [acousticness |-> ac, danceability |-> da, energy |-> en,
     instrumentalness |-> ins, liveness |-> li, loudness |-> lo,
     speechiness |-> sp, tempo |-> te, valence |-> va, mode |-> mo,
     key |-> ke, time_signature |-> ts]

AudioFeatureSets ==
    { AudioFeatures(Rat(1, 2), RInt(1), Rat(1, 2), RInt(0), Rat(1, 2), RInt(-30),
                    RInt(0), RInt(125), Rat(1, 2), RInt(1), RInt(11), RInt(7)),
      AudioFeatures(RInt(1), Rat(1, 2), RInt(1), Rat(1, 2), RInt(0), RInt(-70),
                    Rat(1, 2), RInt(230), Rat(1, 2), RInt(0), RInt(0), RInt(7)),
      AudioFeatures(RInt(0), RInt(0), RInt(0), RInt(0), RInt(0), RInt(-60),
                    RInt(0), RInt(50), RInt(0), RInt(0), RInt(0), RInt(0)) }

RECURSIVE SeqsUpTo(_, _)
SeqsUpTo(S, n) ==
    IF n = 0 THEN {<<>>}
    ELSE LET shorter == SeqsUpTo(S, n - 1)
         IN  shorter \cup
             { Append(q, x) : q \in {r \in shorter : Len(r) = n - 1}, x \in S }

Jazz == <<"j", "a", "z", "z">>

Pop == <<"p", "o", "p">>
RockCaps == <<"R", "O", "C", "K">>

GenreLabels == { Rock, RockCaps, IndieRock, Pop, PopCap, Jazz, Unknown, Constructor, ProtoName }

\* Largest number of labels in a list given to createGenreVector.
MaxGenres == 2

GenreLists == SeqsUpTo(GenreLabels, MaxGenres)

ReleaseDates ==
    { <<"2", "0", "0", "0", "-", "0", "6", "-", "1", "5">>,
      <<"1", "9", "5", "0">>,
      <<"u", "n", "k", "n", "o", "w", "n">> }

PreviewUrls == { None, Some(<<"h", "t", "t", "p", "s", ":", "/", "/", "p">>) }

Track(pop, date, dur, url) ==
    [popularity |-> pop, album |-> [release_date |-> date],
     duration_ms |-> dur, preview_url |-> url]

Tracks ==
    { Track(pop, date, dur, url) :
        pop \in {0, 50}, date \in ReleaseDates, dur \in {60000, 330000},
        url \in PreviewUrls }

SongMetadatas ==
    { [track |-> t, audioFeatures |-> af, genres |-> g] :
        t \in Tracks, af \in AudioFeatureSets, g \in { <<>>, <<Rock>>, <<Jazz>> } }

\* A vector of integers as a vector of the embedding service.
NumVector(v) == [i \in 1..Len(v) |-> Num(RInt(v[i]))]

\* The vector of 128 coordinates that is 1 at coordinate k and 0 elsewhere.
Unit(k) == [i \in 1..Dimensions |-> IF i = k THEN One ELSE Zero]

SongVectors ==
    { NumVector(<<3, 4>>), NumVector(<<0, 0>>), NumVector(<<1, 2, 2>>), Unit(1), Unit(2),
      Unit(3), NumVector(<<-3, -4>>), NumVector(<<6, 8>>) }

\* Largest number of vectors given to createPlaylistVector.
MaxPlaylist == 3

Playlists == SeqsUpTo(SongVectors, MaxPlaylist)

InitEmbed ==
    /\ store = <<>>
    /\ pc = "idle"
    /\ op = "none"
    /\ query = <<>>
    /\ opts = NoOptions
    /\ result = Returned(<<>>)
    /\ candidates = <<>>
    /\ selected = <<>>
    /\ remaining = <<>>
    /\ currentYear = FirstYear
    /\ call = NoCall
    /\ returned = <<>>
    /\ earlier = <<>>
    /\ heap = <<>>
    /\ given = NoArrays
    /\ pending = <<>>
    /\ last = NoReturn
    /\ playlistAnalysis = <<>>
    /\ procs = <<>>

CallAudio ==
    /\ call = NoCall
    /\ \E af \in AudioFeatureSets :
          /\ call' = [fn |-> "createAudioFeatureVector", arg |-> af]
          /\ returned' = createAudioFeatureVector(af)
    /\ UNCHANGED <<currentYear, earlier>>
    /\ UNCHANGED rvars
    /\ UNCHANGED <<hvars, ivars>>

CallGenre ==
    /\ call = NoCall
    /\ \E genres \in GenreLists :
          /\ call' = [fn |-> "createGenreVector", arg |-> genres]
          /\ returned' = createGenreVector(genres)
    /\ UNCHANGED <<currentYear, earlier>>
    /\ UNCHANGED rvars
    /\ UNCHANGED <<hvars, ivars>>

CallCombined ==
    /\ call = NoCall
    /\ \E songMetadata \in SongMetadatas :
          /\ call' = [fn |-> "createCombinedVector", arg |-> songMetadata]
          /\ returned' = createCombinedVector(songMetadata, currentYear)
    /\ UNCHANGED <<currentYear, earlier>>
    /\ UNCHANGED rvars
    /\ UNCHANGED <<hvars, ivars>>

\* The caller keeps the vector it was given, to call again with the same
\* argument.
Keep ==
    /\ call.fn = "createCombinedVector"
    /\ earlier = <<>>
    /\ earlier' = returned
    /\ returned' = <<>>
    /\ UNCHANGED <<currentYear, call>>
    /\ UNCHANGED rvars
    /\ UNCHANGED <<hvars, ivars>>

\* The second call of createCombinedVector with the same argument.
CallAgain ==
    /\ call.fn = "createCombinedVector"
    /\ earlier # <<>>
    /\ returned = <<>>
    /\ returned' = createCombinedVector(call.arg, currentYear)
    /\ UNCHANGED <<currentYear, call, earlier>>
    /\ UNCHANGED rvars
    /\ UNCHANGED <<hvars, ivars>>

\* The wall clock passes a new year while no call is running.
NewYear ==
    /\ call = NoCall \/ (earlier # <<>> /\ returned = <<>>)
    /\ currentYear < FirstYear + MaxNewYears
    /\ currentYear' = currentYear + 1
    /\ UNCHANGED <<call, returned, earlier>>
    /\ UNCHANGED rvars
    /\ UNCHANGED <<hvars, ivars>>

CallPlaylist ==
    /\ call = NoCall
    /\ \E songVectors \in Playlists :
          /\ call' = [fn |-> "createPlaylistVector", arg |-> songVectors]
          /\ returned' = createPlaylistVector(songVectors)
    /\ UNCHANGED <<currentYear, earlier>>
    /\ UNCHANGED rvars
    /\ UNCHANGED <<hvars, ivars>>

NextEmbed ==
    \/ CallCosine(CosineVectors)
    \/ CallAudio
    \/ CallGenre
    \/ CallCombined
    \/ Keep
    \/ NewYear
    \/ CallAgain
    \/ CallPlaylist
    \/ Forget

SpecEmbed == InitEmbed /\ [][NextEmbed]_vars

AudioCalled == call.fn = "createAudioFeatureVector"
GenreCalled == call.fn = "createGenreVector"
\* createCombinedVector has just returned.
CombinedCalled == call.fn = "createCombinedVector" /\ returned # <<>>
PlaylistCalled == call.fn = "createPlaylistVector"

\* The dot product of two integer vectors of one length.
Dot(a, b) == SumTo([i \in 1..Len(a) |-> a[i] * b[i]], Len(a))

Raised == returned = LengthError

MixedLengths(songVectors) ==
    \E i, j \in 1..Len(songVectors) : Len(songVectors[i]) # Len(songVectors[j])

\* C14: createPlaylistVector called with vectors that are not all of one length
\* fails with an error; it returns no vector made by filling the shorter ones
\* with zeros or by dropping coordinates of the longer ones.
C14_PlaylistRejectsMixedLengths ==
    (PlaylistCalled /\ MixedLengths(call.arg)) => Raised

\* A vector of n coordinates, each of them 0.
AllZeros(v, n) == Len(v) = n /\ \A i \in 1..n : v[i] = Zero

\* C15: createGenreVector([]) returns 50 zeros and createPlaylistVector([])
\* returns 128 zeros; neither call throws.
C15_EmptyInputsGiveZeroVectors ==
    /\ (GenreCalled /\ call.arg = <<>>) => (~Raised /\ AllZeros(returned, 50))
    /\ (PlaylistCalled /\ call.arg = <<>>) => (~Raised /\ AllZeros(returned, 128))

\* createPlaylistVector has been called with no vectors.
C15_Witness == PlaylistCalled /\ call.arg = <<>> /\ Len(returned) = 128

\* C16: createAudioFeatureVector returns 12 coordinates, createGenreVector 50
\* for every list of genres, and createCombinedVector 128: the 36 coordinates
\* before the padding grow by whole groups of 4 to exactly 128, which is what
\* the final slice keeps.
C16_VectorLengths ==
    /\ AudioCalled => Len(returned) = 12
    /\ GenreCalled => Len(returned) = 50
    /\ CombinedCalled =>
          /\ Len(returned) = 128
          /\ Len(Combined(call.arg, currentYear)) = 128
          /\ (Len(Combined(call.arg, currentYear)) - (12 + 20 + 4)) % 4 = 0

\* createCombinedVector has returned for a song with a genre.
C16_Witness ==
    /\ CombinedCalled
    /\ call.arg.genres # <<>>
    /\ Len(returned) = 128
    /\ earlier = <<>>

\* C17 (as claimed): createPlaylistVector returns 128 coordinates for every
\* sequence of vectors, whatever the length of the first one.
C17_PlaylistAlways128 == PlaylistCalled => Len(returned) = 128

\* C17 (amended): createPlaylistVector returns 128 coordinates for the empty
\* sequence and as many coordinates as the first vector has otherwise; so 128
\* whenever the first vector has 128.
C17_PlaylistLengthOfFirstVector ==
    PlaylistCalled =>
        Len(returned) = IF call.arg = <<>> THEN 128 ELSE Len(call.arg[1])

\* A vector of 3 coordinates followed by one of 128 has been aggregated.
C17_Witness ==
    /\ PlaylistCalled
    /\ Len(call.arg) = 2
    /\ Len(call.arg[1]) = 3
    /\ Len(call.arg[2]) = 128
    /\ Len(returned) = 3

\* The release date of the song given to createCombinedVector.
ReleaseDate == call.arg.track.album.release_date

\* C18: normalizeYear returns 0.5 for every release date that cannot be parsed,
\* so no coordinate of the vector createCombinedVector returns is NaN.
C18_UnparsableDateIsNeutral ==
    CombinedCalled =>
        /\ GetFullYear(ReleaseDate) = None
              => normalizeYear(ReleaseDate, currentYear) = Num(Rat(1, 2))
        /\ ~HasNaN(returned)

\* C19: two calls of createCombinedVector with the same argument return the
\* same vector, whatever the wall clock shows at each call.
C19_SameArgumentSameVector ==
    (CombinedCalled /\ earlier # <<>>) => SameVector(returned, earlier)

\* The vector createCombinedVector hands to normalizeVector.
BeforeNormalization == Slice0(Combined(call.arg, currentYear), Dimensions)

\* Coordinate i of a vector, counted from 0 as in the source.
Coord(v, i) == v[i + 1]

\* C20: before normalization, coordinates 0-11 of the combined vector are the
\* audio vector, 12-31 the first 20 coordinates of the normalized genre vector,
\* 32-35 popularity/100, normalizeYear, normalizeDuration and hasPreview, and
\* for k in 0..22 coordinates 36+4k..39+4k are energy*danceability,
\* valence*energy, acousticness*instrumentalness and 0; the padding ends at
\* coordinate 127.
C20_CombinedLayout ==
    CombinedCalled =>
        LET c == BeforeNormalization
            track == call.arg.track
            af == call.arg.audioFeatures
            audio == createAudioFeatureVector(af)
            genre == createGenreVector(call.arg.genres)
        IN  /\ Len(Combined(call.arg, currentYear)) = 128
            /\ Len(c) = 128
            /\ \A i \in 0..11 : Coord(c, i) = Coord(audio, i)
            /\ \A i \in 12..31 : Coord(c, i) = Coord(genre, i - 12)
            /\ Coord(c, 32) = Num(Rat(track.popularity, 100))
            /\ Coord(c, 33) = normalizeYear(track.album.release_date, currentYear)
            /\ Coord(c, 34) = Num(normalizeDuration(RInt(track.duration_ms)))
            /\ Coord(c, 35) = (IF track.preview_url # None /\ track.preview_url # Some(<<>>)
                               THEN One ELSE Zero)
            /\ \A k \in 0..22 :
                  /\ Coord(c, 36 + 4 * k) = Num(RMul(af.energy, af.danceability))
                  /\ Coord(c, 37 + 4 * k) = Num(RMul(af.valence, af.energy))
                  /\ Coord(c, 38 + 4 * k) = Num(RMul(af.acousticness, af.instrumentalness))
                  /\ Coord(c, 39 + 4 * k) = Zero
            /\ returned = normalizeVector(c)

\* createCombinedVector has returned for a song with a genre, a release date
\* that parses, a preview and three interaction terms that differ.
C20_Witness ==
    /\ CombinedCalled
    /\ call.arg.genres = <<Rock>>
    /\ GetFullYear(ReleaseDate) = Some(2000)
    /\ call.arg.track.preview_url # None
    /\ Coord(BeforeNormalization, 36) # Coord(BeforeNormalization, 37)
    /\ Coord(BeforeNormalization, 37) # Coord(BeforeNormalization, 38)
    /\ Coord(BeforeNormalization, 17) # Zero

\* Every coordinate is 0.
ZeroVector(v) == \A i \in 1..Len(v) : v[i] = Zero

\* The vector the called method hands to normalizeVector.
Unnormalized ==
    IF call.fn = "createCombinedVector" THEN BeforeNormalization
    ELSE IF call.fn = "createGenreVector"
    THEN [i \in 1..GenreDimensions |-> GenreSum(call.arg, Len(call.arg), i)]
    ELSE [i \in 1..Len(call.arg[1]) |-> PlaylistSum(call.arg, Len(call.arg), i)]

\* A vector was built from an argument that is not empty.
VectorBuilt ==
    \/ CombinedCalled
    \/ GenreCalled /\ call.arg # <<>>
    \/ PlaylistCalled /\ call.arg # <<>>

ZeroOrUnit(v) ==
    IF HasNaN(v) THEN FALSE
    ELSE ZeroVector(v) \/ SumSquares(v) = RInt(1)

\* C21: every vector createCombinedVector, createGenreVector and
\* createPlaylistVector return is all zero or has the sum of its squared
\* coordinates equal to 1, and it is all zero only when the vector before
\* normalization is exactly zero.
C21_OutputsZeroOrUnit ==
    /\ (GenreCalled \/ CombinedCalled \/ PlaylistCalled) => ZeroOrUnit(returned)
    /\ (VectorBuilt /\ ~HasNaN(returned) /\ ZeroVector(returned))
          => ZeroVector(Unnormalized)

\* What does hold of the code: the same, for every call whose vector before
\* normalization has no NaN coordinate.
ZeroOrUnitWithoutNaN ==
    /\ ((GenreCalled \/ PlaylistCalled) /\ call.arg = <<>>) => ZeroVector(returned)
    /\ VectorBuilt =>
          IF HasNaN(Unnormalized) THEN \A i \in 1..Len(returned) : IsNaN(returned[i])
          ELSE /\ ZeroOrUnit(returned)
               /\ ZeroVector(returned) <=> ZeroVector(Unnormalized)

----------------------------------------------------------------------------
(* C22: lower-casing and the 'unknown' row *)

\* The row a label stands for when only the table's own keys are looked up.
RowOf(label) ==
    LET genreKey == ToLowerCase(label)
    IN  IF genreKey \in DOMAIN GENRE_EMBEDDINGS THEN GENRE_EMBEDDINGS[genreKey]
        ELSE GENRE_EMBEDDINGS[Unknown]

RECURSIVE RowSum(_, _, _)
\* Coordinate i of the sum of the rows of the first k labels, each over n.
RowSum(genres, k, i) ==
    IF k = 0 THEN Zero
    ELSE NAdd(RowSum(genres, k - 1, i), NDiv(At(RowOf(genres[k]), i), RInt(Len(genres))))

\* The genre vector of a list when every label contributes RowOf(label).
VectorOfRows(genres) ==
    normalizeVector([i \in 1..GenreDimensions |-> RowSum(genres, Len(genres), i)])

\* A label whose lower-cased form names a property every object inherits.
Inherited(label) == ToLowerCase(label) \in DOMAIN InheritedProperties

\* C22: every label is lower-cased before the lookup, a label whose
\* lower-cased form is not a key of the table contributes exactly the
\* 'unknown' row, and no label makes the call fail or contributes anything else.
C22_UnmappedLabelIsUnknown ==
    (GenreCalled /\ call.arg # <<>>) =>
        /\ returned # LengthError
        /\ SameVector(returned, VectorOfRows(call.arg))
        /\ SameVector(returned, createGenreVector([k \in 1..Len(call.arg) |-> ToLowerCase(call.arg[k])]))

\* The same for the lists none of whose labels names an inherited property.
OwnOrUnknown ==
    (GenreCalled /\ call.arg # <<>> /\ \A k \in 1..Len(call.arg) : ~Inherited(call.arg[k])) =>
        /\ returned # LengthError
        /\ SameVector(returned, VectorOfRows(call.arg))
        /\ SameVector(returned, createGenreVector([k \in 1..Len(call.arg) |-> ToLowerCase(call.arg[k])]))

----------------------------------------------------------------------------
(* C23: the genre vector before normalization *)

\* The labels of a list in the opposite order.
Reversed(genres) == [k \in 1..Len(genres) |-> genres[Len(genres) + 1 - k]]

\* Every label of the list stands for the same row.
SameRow(genres) == \A k \in 1..Len(genres) : RowOf(genres[k]) = RowOf(genres[1])

\* The three parts of the claim for the call that has just returned.
AverageOfRows ==
    /\ \A i \in 1..GenreDimensions :
          SameNumber(Unnormalized[i], IF i <= 10 THEN RowSum(call.arg, Len(call.arg), i) ELSE Zero)
    /\ SameVector(returned, createGenreVector(Reversed(call.arg)))
    /\ SameRow(call.arg) => SameVector(returned, createGenreVector(<<call.arg[1]>>))

\* C23: before normalization the genre vector is the sum of the labels' rows
\* over the number of labels in coordinates 0-9 and 0 in coordinates 10-49; it
\* does not depend on the order of the labels, and a list whose labels all
\* stand for the same row embeds as a single such label does.
C23_GenreVectorIsAverage ==
    (GenreCalled /\ call.arg # <<>>) => AverageOfRows

\* The same for the lists none of whose labels names an inherited property.
AverageOfOwnRows ==
    (GenreCalled /\ call.arg # <<>> /\ \A k \in 1..Len(call.arg) : ~Inherited(call.arg[k])) => AverageOfRows

----------------------------------------------------------------------------
(* C24: the playlist vector is the normalized mean *)

RECURSIVE SumOfCoordinate(_, _, _)
\* Coordinate i of the sum of the first k vectors.
SumOfCoordinate(songVectors, k, i) ==
    IF k = 0 THEN Zero
    ELSE NAdd(SumOfCoordinate(songVectors, k - 1, i), At(songVectors[k], i))

\* The coordinate-wise sum and mean of vectors of one length.
SumVector(songVectors) ==
    [i \in 1..Len(songVectors[1]) |-> SumOfCoordinate(songVectors, Len(songVectors), i)]
MeanVector(songVectors) ==
    [i \in 1..Len(songVectors[1]) |-> NDiv(SumVector(songVectors)[i], RInt(Len(songVectors)))]

\* The same vectors with the first two exchanged, and with the first moved
\* to the end: the two together generate every order.
SwapFirstTwo(s) == IF Len(s) < 2 THEN s ELSE <<s[2], s[1]>> \o SubSeq(s, 3, Len(s))
Rotate(s) == Tail(s) \o <<Head(s)>>

\* The vectors are three different unit vectors of the basis.
ThreeUnits(songVectors) ==
    /\ Len(songVectors) = 3
    /\ \A k \in 1..3 : songVectors[k] \in { Unit(1), Unit(2), Unit(3) }
    /\ \A j, k \in 1..3 : j # k => songVectors[j] # songVectors[k]

ZeroMeanReached ==
    /\ PlaylistCalled
    /\ call.arg = <<NumVector(<<3, 4>>), NumVector(<<-3, -4>>)>>
    /\ returned = Zeros(2)

----------------------------------------------------------------------------
(* C25: which candidates get the largest diversityScore *)

\* The scan of the while loop is about to run over remaining.
Scanning ==
    /\ pc = "loop"
    /\ Len(selected) < OrDefault(opts.limit, DefaultLimit)
    /\ Len(remaining) > 0

\* diversityScore of a remaining candidate in the scan.
ScanDiversityScore(c) == RSub(RInt(1), MinSimilarity(c, selected, Len(selected)))

\* c has another artist than s and none of c's genres is a genre of s.
Dissimilar(c, s) == SameArtist(c, s) = 0 /\ GenreOverlapFraction(c, s) = RInt(0)

IsOne(x) == RLeq(RInt(1), x) /\ RLeq(x, RInt(1))

\* C25 (as stated): a remaining candidate gets diversityScore 1 only if it is
\* dissimilar to every selected result, and a candidate with the artist of
\* some selected result has diversityScore <= 0.5.
C25_MaximalOnlyIfDissimilarToAll ==
    Scanning => \A k \in 1..Len(remaining) :
        LET c == remaining[k]
        IN  /\ IsOne(ScanDiversityScore(c)) => \A i \in 1..Len(selected) : Dissimilar(c, selected[i])
            /\ (\E i \in 1..Len(selected) : SameArtist(c, selected[i]) = 1) =>
                  RLeq(ScanDiversityScore(c), Rat(1, 2))

\* C25 (amended): a remaining candidate gets diversityScore 1 exactly when
\* it is dissimilar to at least one selected result, and a candidate with the
\* artist of every selected result has diversityScore <= 0.5.
C25_MaximalIffDissimilarToOne ==
    Scanning => \A k \in 1..Len(remaining) :
        LET c == remaining[k]
        IN  /\ IsOne(ScanDiversityScore(c)) <=> \E i \in 1..Len(selected) : Dissimilar(c, selected[i])
            /\ (\A i \in 1..Len(selected) : SameArtist(c, selected[i]) = 1) =>
                  RLeq(ScanDiversityScore(c), Rat(1, 2))

\* Songs of two artists are selected, and a remaining candidate with the
\* artist of one of them has diversityScore 1.
C25_Witness ==
    /\ Scanning
    /\ \E i, j \in 1..Len(selected) : selected[i].artist # selected[j].artist
    /\ \E k \in 1..Len(remaining) :
          /\ \E i \in 1..Len(selected) : SameArtist(remaining[k], selected[i]) = 1
          /\ IsOne(ScanDiversityScore(remaining[k]))

----------------------------------------------------------------------------
(* C26: equal scores keep the order they came in *)

\* The place of the song with this spotifyId in a list of songs.
PlaceIn(list, id) == CHOOSE i \in 1..Len(list) : list[i].spotifyId = id

SameScore(a, b) == RLeq(a.similarity, b.similarity) /\ RLeq(b.similarity, a.similarity)

\* Songs of equal score stand in `list` in the order they have in `source`.
TiesFollow(list, source) ==
    \A i, j \in 1..Len(list) :
        (i < j /\ SameScore(list[i], list[j])) =>
            PlaceIn(source, list[i].spotifyId) < PlaceIn(source, list[j].spotifyId)

\* What findSimilarSongs returns for the options of the running call.
RankOfCall == findSimilarSongs(store, query, opts).list

\* C26: in the result of findSimilarSongs, songs of equal similarity stand in
\* the order the store supplied them, and in the result of hybridSearch songs
\* of equal blended score stand in the order findSimilarSongs gave them.
C26_TiesKeepInputOrder ==
    /\ RankDone => TiesFollow(result.list, store)
    /\ HybridDone => TiesFollow(result.list, RankOfCall)

\* A result of hybridSearch with two songs of equal blended score that
\* findSimilarSongs had given different similarities.
C26_Witness ==
    /\ HybridDone
    /\ \E i, j \in 1..Len(result.list) :
          /\ i < j /\ SameScore(result.list[i], result.list[j])
          /\ ~SameScore(RankOfCall[PlaceIn(RankOfCall, result.list[i].spotifyId)],
                        RankOfCall[PlaceIn(RankOfCall, result.list[j].spotifyId)])

\* A result of findSimilarSongs with two songs of equal similarity.
RankTieReached ==
    /\ RankDone
    /\ \E i, j \in 1..Len(result.list) : i < j /\ SameScore(result.list[i], result.list[j])

----------------------------------------------------------------------------
(* The arrays in memory: which statements of the two services allocate an
   array, which write into one, and which hand an existing one on.  heap[a]
   is the content of the array at address a; the arrays the callers hand in
   have the first addresses and are kept, as they were, in given. *)

\* The addresses of the callers' arrays.
QueryAt == 1
GenresAt == 2
FirstVectorAt == 3
SecondVectorAt == 4
SongVectorsAt == 5
VectorBAt == 6

\* Largest number of calls of the search service waiting for findMany.
MaxCalls == 2

\* A new array with this content: the heap after it, and its address.
Alloc(h, content) == [heap |-> Append(h, content), ret |-> Len(h) + 1]

\* The norm of the vector is 0: normalizeVector returns the array it was given.
ZeroNorm(vector) == ~HasNaN(vector) /\ SumSquares(vector) = RInt(0)

\* this.normalizeVector(vector) for the array at address a: `return vector`
\* hands back the argument itself, vector.map makes a new array.
NormalizeOnHeap(h, a) ==
    IF ZeroNorm(h[a]) THEN [heap |-> h, ret |-> a]
    ELSE Alloc(h, normalizeVector(h[a]))

\* The arrays createGenreVector(genres) makes, the last being the one it
\* returns: the array of zeros for no genres; otherwise vector and, unless
\* its norm is 0, the array vector.map makes.
GenreArrays(genres) ==
    IF Len(genres) = 0 THEN << Zeros(GenreDimensions) >>
    ELSE LET vector == [i \in 1..GenreDimensions |-> GenreSum(genres, Len(genres), i)]
         IN  IF ZeroNorm(vector) THEN << vector >>
             ELSE << vector, normalizeVector(vector) >>

\* createGenreVector(genres) for the array genres at address g.
GenreOnHeap(h, g) ==
    [heap |-> h \o GenreArrays(h[g]), ret |-> Len(h) + Len(GenreArrays(h[g]))]

\* Mutant: the sums are formed in songVectors[0] instead of a new array.
AvgVectorOnHeap_FirstVector(h, songVectors, content) ==
    [heap |-> [h EXCEPT ![songVectors[1]] = content], ret |-> songVectors[1]]

\* avgVector: new Array(dimensions).fill(0), then written by the loop.
AvgVectorOnHeap(h, songVectors, content) == Alloc(h, content)

\* createPlaylistVector(songVectors) for the array of arrays at address p.
PlaylistOnHeap(h, p) ==
    LET songVectors == h[p]
    IN  IF Len(songVectors) = 0 THEN Alloc(h, Zeros(Dimensions))
        ELSE LET vectors == [k \in 1..Len(songVectors) |-> h[songVectors[k]]]
                 dimensions == Len(vectors[1])
                 avgVector == AvgVectorOnHeap(h, songVectors,
                                  [i \in 1..dimensions |-> PlaylistSum(vectors, Len(vectors), i)])
             IN  NormalizeOnHeap(avgVector.heap, avgVector.ret)

\* The arrays createCombinedVector(songMetadata) makes before it calls
\* normalizeVector: audioVector, the arrays of createGenreVector, the slice of
\* genreVector, metadataFeatures, combined and the slice of combined.
CombinedArrays(songMetadata, yearNow) ==
    << createAudioFeatureVector(songMetadata.audioFeatures) >> \o
    GenreArrays(songMetadata.genres) \o
    << SubSeq(createGenreVector(songMetadata.genres), 1, GenrePrefix),
       MetadataFeatures(songMetadata.track, yearNow),
       Combined(songMetadata, yearNow),
       SubSeq(Combined(songMetadata, yearNow), 1, Dimensions) >>

\* createCombinedVector(songMetadata), songMetadata.genres being the array at
\* address g.
CombinedOnHeap(h, songMetadata, g, yearNow) ==
    NormalizeOnHeap(h \o CombinedArrays([songMetadata EXCEPT !.genres = h[g]], yearNow),
                    Len(h) + Len(CombinedArrays([songMetadata EXCEPT !.genres = h[g]], yearNow)))

RECURSIVE GreedySelect(_, _, _, _)
\* The while loop of getDiverseRecommendations to its end: <<selected, remaining>>.
GreedySelect(sel, rem, limit, diversityWeight) ==
    IF Len(sel) < limit /\ Len(rem) > 0
    THEN LET bestIndex == BestIndex(rem, sel, diversityWeight)
         IN  GreedySelect(Append(sel, rem[bestIndex]), RemoveAt(rem, bestIndex),
                          limit, diversityWeight)
    ELSE <<sel, rem>>

\* getDiverseRecommendations from entry to return.
getDiverseRecommendations(st, queryVector, o) ==
    LET found == findSimilarSongs(st, queryVector, OversampledOptions(o))
        limit == OrDefault(o.limit, DefaultLimit)
        diversityWeight == OrDefault(o.diversityWeight, DefaultDiversityWeight)
    IN  IF found.error THEN Thrown
        ELSE IF Len(found.list) <= limit THEN found
        ELSE Returned(GreedySelect(<<found.list[1]>>, Tail(found.list), limit, diversityWeight)[1])

\* The options of a waiting call: limit and genreFilter, the rest left out.
OptionsRead(c) ==
    Options(c.limit, None, None, c.genreFilter, None, None, None, None, None, None, None)

\* What the method c.fn returns or throws for this table and query vector.
SearchOutcome(st, queryVector, c) ==
    IF c.fn = "findSimilarSongs" THEN findSimilarSongs(st, queryVector, OptionsRead(c))
    ELSE IF c.fn = "hybridSearch" THEN hybridSearch(st, queryVector, OptionsRead(c))
    ELSE getDiverseRecommendations(st, queryVector, OptionsRead(c))

\* The part of a search call after findMany has answered.  queryVector is
\* read now.  findSimilarSongs returns the array slice() made; hybridSearch
\* the array map() made and sort() ordered in place; getDiverseRecommendations
\* either candidates itself or selected, after the loop has pushed into
\* selected and spliced remaining, the copy of candidates.
ResumeOnHeap(h, st, c) ==
    LET queryVector == h[QueryAt]
        outcome == SearchOutcome(st, queryVector, c)
        inner == IF c.fn = "getDiverseRecommendations"
                 THEN findSimilarSongs(st, queryVector, OversampledOptions(OptionsRead(c)))
                 ELSE findSimilarSongs(st, queryVector, OptionsRead(c))
    IN  IF outcome.error THEN [heap |-> h, ret |-> 0, value |-> outcome]
        ELSE LET found == Alloc(h, inner.list)
             IN  IF c.fn = "findSimilarSongs"
                 THEN [heap |-> found.heap, ret |-> found.ret, value |-> outcome]
                 ELSE IF c.fn = "hybridSearch"
                 THEN LET mapped == Alloc(found.heap, outcome.list)
                      IN  [heap |-> mapped.heap, ret |-> mapped.ret, value |-> outcome]
                 ELSE IF Len(inner.list) <= OrDefault(c.limit, DefaultLimit)
                 THEN [heap |-> found.heap, ret |-> found.ret, value |-> outcome]
                 ELSE LET loop == GreedySelect(<<inner.list[1]>>, Tail(inner.list),
                                      OrDefault(c.limit, DefaultLimit), DefaultDiversityWeight)
                          rem == Alloc(found.heap, loop[2])
                          sel == Alloc(rem.heap, loop[1])
                      IN  [heap |-> sel.heap, ret |-> sel.ret, value |-> outcome]

----------------------------------------------------------------------------
(* The state machine of the arrays: calls of both services against the same
   callers' arrays, the search calls suspended at findMany *)

HeapStores ==
    { s \in Stores : Len(s) = 3 /\ s[2].spotifyId = "t3"
                     /\ { s[1].spotifyId, s[3].spotifyId } = { "t1", "t4" } }

HeapsGiven ==
    { <<q, g, v, NumVector(<<4, 3>>), p, <<5, 0>>>> :
        q \in { <<3, 4>> }, g \in { <<>>, <<Rock>> },
        v \in { NumVector(<<3, 4>>), NumVector(<<0, 0>>) },
        p \in { <<>>, <<FirstVectorAt>>, <<FirstVectorAt, SecondVectorAt>> } }

HeapSongMetadatas ==
    { m \in SongMetadatas : /\ m.genres = <<>>
                            /\ m.track.popularity = 50
                            /\ m.track.duration_ms = 60000
                            /\ m.track.preview_url = None
                            /\ Len(m.track.album.release_date) > 4
                            /\ m.audioFeatures.key = RInt(11) }

SearchMethods == { "findSimilarSongs", "hybridSearch", "getDiverseRecommendations" }

\* The limits a method is called with: with three stored songs the greedy
\* loop runs for limit 2, and candidates itself is returned for limit 3.
SearchLimits(fn) ==
    IF fn = "getDiverseRecommendations" THEN { Some(2), Some(3) } ELSE { Some(2) }

\* The arrays a call made for itself and does not return are garbage when it
\* returns: the callers' arrays stay, and the returned array if it is not one
\* of them.
Reclaim(out) ==
    LET n == Len(given.heap)
    IN  IF out.ret = 0 \/ out.ret <= n
        THEN [heap |-> SubSeq(out.heap, 1, n), ret |-> out.ret]
        ELSE [heap |-> Append(SubSeq(out.heap, 1, n), out.heap[out.ret]), ret |-> n + 1]

InitHeap ==
    /\ store \in HeapStores
    /\ pc = "idle"
    /\ op = "none"
    /\ query = <<>>
    /\ opts = NoOptions
    /\ result = Returned(<<>>)
    /\ candidates = <<>>
    /\ selected = <<>>
    /\ remaining = <<>>
    /\ currentYear = FirstYear
    /\ call = NoCall
    /\ returned = <<>>
    /\ earlier = <<>>
    /\ heap \in HeapsGiven
    /\ given = [heap |-> heap, store |-> store]
    /\ pending = <<>>
    /\ last = NoReturn
    /\ playlistAnalysis = <<>>
    /\ procs = <<>>

\* A method of the search service is called: options are destructured, the
\* where clause is built, findMany is sent and the call waits.
CallSearch(fn) ==
    /\ Len(pending) < MaxCalls
    /\ \E l \in SearchLimits(fn) :
          pending' = Append(pending,
              [fn |-> fn, limit |-> l, genreFilter |-> Some(heap[GenresAt])])
    /\ UNCHANGED <<heap, given, last>>
    /\ UNCHANGED <<rvars, evars, ivars>>

\* findMany answers the i-th waiting call, which runs to its return.
ResumeSearch ==
    /\ last = NoReturn
    /\ \E i \in 1..Len(pending) :
          \E out \in { ResumeOnHeap(heap, store, pending[i]) } :
              /\ heap' = Reclaim(out).heap
              /\ last' = [fn |-> pending[i].fn, arg |-> pending[i],
                          ret |-> Reclaim(out).ret, value |-> out.value]
              /\ pending' = RemoveAt(pending, i)
    /\ UNCHANGED given
    /\ UNCHANGED <<rvars, evars, ivars>>

GenreOnHeapCalled ==
    /\ last = NoReturn
    /\ \E out \in { GenreOnHeap(heap, GenresAt) } :
          /\ heap' = Reclaim(out).heap
          /\ last' = [fn |-> "createGenreVector", arg |-> GenresAt,
                      ret |-> Reclaim(out).ret, value |-> out.heap[out.ret]]
    /\ UNCHANGED <<given, pending>>
    /\ UNCHANGED <<rvars, evars, ivars>>

PlaylistOnHeapCalled ==
    /\ last = NoReturn
    /\ \E out \in { PlaylistOnHeap(heap, SongVectorsAt) } :
          /\ heap' = Reclaim(out).heap
          /\ last' = [fn |-> "createPlaylistVector", arg |-> SongVectorsAt,
                      ret |-> Reclaim(out).ret, value |-> out.heap[out.ret]]
    /\ UNCHANGED <<given, pending>>
    /\ UNCHANGED <<rvars, evars, ivars>>

CombinedOnHeapCalled ==
    /\ last = NoReturn
    /\ \E m \in HeapSongMetadatas :
          \E out \in { CombinedOnHeap(heap, m, GenresAt, currentYear) } :
              /\ heap' = Reclaim(out).heap
              /\ last' = [fn |-> "createCombinedVector", arg |-> m,
                          ret |-> Reclaim(out).ret, value |-> out.heap[out.ret]]
    /\ UNCHANGED <<given, pending>>
    /\ UNCHANGED <<rvars, evars, ivars>>

\* calculateCosineSimilarity returns a number: no array is made.
CosineOnHeapCalled ==
    /\ last = NoReturn
    /\ last' = [fn |-> "calculateCosineSimilarity", arg |-> <<QueryAt, VectorBAt>>,
                ret |-> 0, value |-> calculateCosineSimilarity(heap[QueryAt], heap[VectorBAt])]
    /\ UNCHANGED <<heap, given, pending>>
    /\ UNCHANGED <<rvars, evars, ivars>>

\* The caller drops what it was given: only the callers' arrays stay.
Collect ==
    /\ last # NoReturn
    /\ heap' = SubSeq(heap, 1, Len(given.heap))
    /\ last' = NoReturn
    /\ UNCHANGED <<given, pending>>
    /\ UNCHANGED <<rvars, evars, ivars>>

NextHeap ==
    \/ CallSearch("findSimilarSongs")
    \/ CallSearch("hybridSearch")
    \/ CallSearch("getDiverseRecommendations")
    \/ ResumeSearch
    \/ GenreOnHeapCalled
    \/ PlaylistOnHeapCalled
    \/ CombinedOnHeapCalled
    \/ CosineOnHeapCalled
    \/ Collect

SpecHeap == InitHeap /\ [][NextHeap]_vars

----------------------------------------------------------------------------
(* C27: inputs are left alone, results are new arrays *)

\* What the call that has just returned gives when it runs alone on the
\* callers' arrays and the table as they were handed in.
RunAlone ==
    IF last.fn = "createGenreVector" THEN createGenreVector(given.heap[GenresAt])
    ELSE IF last.fn = "createPlaylistVector"
    THEN createPlaylistVector([k \in 1..Len(given.heap[SongVectorsAt]) |->
                                  given.heap[given.heap[SongVectorsAt][k]]])
    ELSE IF last.fn = "createCombinedVector"
    THEN createCombinedVector([last.arg EXCEPT !.genres = given.heap[GenresAt]], currentYear)
    ELSE IF last.fn = "calculateCosineSimilarity"
    THEN calculateCosineSimilarity(given.heap[QueryAt], given.heap[VectorBAt])
    ELSE SearchOutcome(given.store, given.heap[QueryAt],
             [last.arg EXCEPT !.genreFilter = Some(given.heap[GenresAt])])

\* The call that has just returned is a call of the search service.
SearchReturned == last # NoReturn /\ last.fn \in SearchMethods

\* C27: no operation changes the arrays it is given or the stored songs, an
\* operation that returns an array returns one it has made itself, never an
\* array of its caller, and whatever calls are in flight each call returns
\* what it returns when it runs alone.
C27_InputsKeptResultsNew ==
    /\ store = given.store
    /\ \A a \in 1..Len(given.heap) : heap[a] = given.heap[a]
    /\ last # NoReturn =>
          /\ last.value = RunAlone
          /\ last.ret # 0 =>
                /\ last.ret > Len(given.heap)
                /\ heap[last.ret] = IF SearchReturned THEN last.value.list ELSE last.value

\* createPlaylistVector has returned the zero vector, the array that
\* normalizeVector handed back as it was given it, while a search call waits.
C27_Witness ==
    /\ last # NoReturn
    /\ last.fn = "createPlaylistVector"
    /\ given.heap[SongVectorsAt] # <<>>
    /\ ZeroVector(heap[last.ret])
    /\ last.ret = Len(given.heap) + 1
    /\ pending # <<>>

\* A search call has returned out of turn: the call made after it still waits.
OutOfTurnReached ==
    /\ SearchReturned
    /\ last.fn = "getDiverseRecommendations"
    /\ Len(last.value.list) = 2
    /\ last.ret = Len(given.heap) + 1
    /\ pending # <<>>

----------------------------------------------------------------------------
(* SongIngestionService: processSong, ingestPlaylist, createPlaylistAnalysis *)

\* Largest number of calls of the ingestion service in one run.
MaxProcs == 2

\* Largest number of tracks fetchPlaylistTracks returns.
MaxTracks == 2

\* Largest number of ingestPlaylist calls among them.
MaxIngests == 1

Electronic == <<"e", "l", "e", "c", "t", "r", "o", "n", "i", "c">>
Dance == <<"d", "a", "n", "c", "e">>
HipHop == <<"h", "i", "p", " ", "h", "o", "p">>
Rap == <<"r", "a", "p">>
Classical == <<"c", "l", "a", "s", "s", "i", "c", "a", "l">>

inferGenresFromArtistName(artistName) ==
    LET name == ToLowerCase(artistName)
    IN  IF Includes(name, <<"d", "j">>) \/ Includes(name, Electronic)
        THEN <<Electronic, Dance>>
        ELSE IF Includes(name, Rock) \/ Includes(name, <<"m", "e", "t", "a", "l">>)
        THEN <<Rock>>
        ELSE IF Includes(name, Rap) \/ Includes(name, <<"h", "i", "p">>)
        THEN <<HipHop, Rap>>
        ELSE IF Includes(name, Jazz) THEN <<Jazz>>
        ELSE IF Includes(name, Classical) THEN <<Classical>>
        ELSE <<Pop>>

RECURSIVE Flatten(_)
\* Array.prototype.flatMap: the lists one after another.
Flatten(lists) ==
    IF Len(lists) = 0 THEN <<>> ELSE Head(lists) \o Flatten(Tail(lists))

RECURSIVE Unique(_)
\* [...new Set(list)]: every value once, at its first place.
Unique(list) ==
    IF Len(list) = 0 THEN <<>>
    ELSE LET before == Unique(SubSeq(list, 1, Len(list) - 1))
         IN  IF Member(list[Len(list)], before) THEN before
             ELSE Append(before, list[Len(list)])

\* track.artists.flatMap(a => this.inferGenresFromArtistName(a.name))
ArtistGenres(track) ==
    Flatten([k \in 1..Len(track.artists) |-> inferGenresFromArtistName(track.artists[k].name)])

\* genres of createPlaylistAnalysis, line 369.
AnalysisGenres(track) == ArtistGenres(track)

\* trackGenres of ingestPlaylist: artistMap holds every artist name of the
\* playlist, so the `?? []` never applies.
trackGenres(track) == Unique(ArtistGenres(track))

\* A Date whose time value is NaN (every date of the model is positive).
InvalidDate == Some(-1)

\* new Date(releaseDate): it never throws.
NewDate(releaseDate) ==
    LET year == GetFullYear(releaseDate)
    IN  IF year = None THEN InvalidDate
        ELSE Some(MkDate(Get(year),
                 IF Len(releaseDate) >= 7 THEN Get(TwoDigitsAfterHyphen(releaseDate, 5)) ELSE 1,
                 IF Len(releaseDate) = 10 THEN Get(TwoDigitsAfterHyphen(releaseDate, 8)) ELSE 1))

Artist(name) == [name |-> name]

SpotifyTrack(id, artists, date) ==
    [id |-> id, artists |-> artists, popularity |-> 50, album |-> [release_date |-> date],
     duration_ms |-> 60000, preview_url |-> None]

RockA == <<"R", "o", "c", "k", " ", "A">>
RockB == <<"R", "o", "c", "k", " ", "B">>
Cat == <<"C", "a", "t">>
DjX == <<"D", "J", " ", "X">>

\* The tracks Spotify answers with: one artist; three artists of whom two
\* have one genre; a release date that is not a date.
IngestTracks ==
    { SpotifyTrack("t1", << Artist(Cat) >>, <<"2", "0", "0", "0", "-", "0", "6", "-", "1", "5">>),
      SpotifyTrack("t2", << Artist(RockA), Artist(RockB), Artist(Cat) >>, <<"1", "9", "5", "0">>),
      SpotifyTrack("t3", << Artist(DjX) >>, <<"u", "n", "k", "n", "o", "w", "n">>) }

IngestAudioFeatures ==
    AudioFeatures(Rat(1, 2), RInt(1), Rat(1, 2), RInt(0), Rat(1, 2), RInt(-30),
                  RInt(0), RInt(125), Rat(1, 2), RInt(1), RInt(11), RInt(7))

\* What fetchPlaylistTracks answers with.  The arithmetic of the model adds
\* numbers under one root, so "t1" and "t2", whose vectors have different
\* norms, are not in one playlist.
IngestPlaylists ==
    { tracks \in SeqsUpTo(IngestTracks, MaxTracks) :
        ~({ "t1", "t2" } \subseteq { tracks[k].id : k \in 1..Len(tracks) }) }

\* The tracks fetchAudioFeatures may answer null for.
NoFeatures == { {}, { "t1" } }

PlaylistIds == { "p1" }

\* The data of db.song.create, lines 215-248.
SongData(track, audioFeatures, genres, yearNow) ==
    [spotifyId |-> track.id,
     artist |-> [k \in 1..Len(track.artists) |-> track.artists[k].name],
     combinedVector |-> Some(createCombinedVector(
                           [track |-> track, audioFeatures |-> audioFeatures, genres |-> genres],
                           yearNow)),
     popularity |-> track.popularity,
     genres |-> genres,
     releaseDate |-> NewDate(track.album.release_date),
     audioFeatureVector |-> createAudioFeatureVector(audioFeatures),
     genreVector |-> createGenreVector(genres)]

\* db.song.findUnique({ where: { spotifyId } }) finds a row.
Existing(st, spotifyId) == \E k \in 1..Len(st) : st[k].spotifyId = spotifyId

\* db.song.create succeeds: the client rejects a Date that is not valid, the
\* table a spotifyId it already holds.
CreateSucceeds(st, data) == data.releaseDate # InvalidDate /\ ~Existing(st, data.spotifyId)

RECURSIVE PlaylistSongVectors(_, _, _)
\* songVectors of createPlaylistAnalysis, lines 365-377.
PlaylistSongVectors(tracks, featured, yearNow) ==
    IF Len(tracks) = 0 THEN <<>>
    ELSE LET track == Head(tracks)
             rest == PlaylistSongVectors(Tail(tracks), featured, yearNow)
         IN  IF track.id \in featured
             THEN << createCombinedVector([track |-> track,
                                           audioFeatures |-> IngestAudioFeatures,
                                           genres |-> AnalysisGenres(track)], yearNow) >> \o rest
             ELSE rest

\* createPlaylistAnalysis up to `await db.playlistAnalysis.upsert`.
Analysis(p, yearNow) ==
    IF p.featured = {} THEN [p EXCEPT !.pc = "thrown"]
    ELSE [p EXCEPT !.pc = "upsert",
                   !.playlistVector =
                       createPlaylistVector(PlaylistSongVectors(p.tracks, p.featured, yearNow))]

RECURSIVE NextTrack(_, _, _)
\* The loop of ingestPlaylist from tracks[k] to its next await.
NextTrack(p, k, yearNow) ==
    IF k > Len(p.tracks) THEN Analysis(p, yearNow)
    ELSE IF p.tracks[k].id \in p.featured
    THEN [p EXCEPT !.index = k, !.pc = "findUnique"]
    ELSE NextTrack(p, k + 1, yearNow)

\* The track and the genres of the processSong call a call is in.
TrackOf(p) == IF p.fn = "processSong" THEN p.track ELSE p.tracks[p.index]
GenresOf(p) == IF p.fn = "processSong" THEN p.genres ELSE trackGenres(p.tracks[p.index])

\* processSong has returned: its caller goes on.  made is what it stored.
AfterSong(p, made, yearNow) ==
    IF p.fn = "processSong" THEN [p EXCEPT !.pc = "returned"]
    ELSE NextTrack([p EXCEPT !.processedCount = @ + 1, !.stored = @ \o made],
                   p.index + 1, yearNow)

\* db.playlistAnalysis.upsert({ where: { spotifyPlaylistId }, create, update })
Upsert(table, row) ==
    IF \E k \in 1..Len(table) : table[k].spotifyPlaylistId = row.spotifyPlaylistId
    THEN [k \in 1..Len(table) |->
             IF table[k].spotifyPlaylistId = row.spotifyPlaylistId THEN row ELSE table[k]]
    ELSE Append(table, row)

InitIngest ==
    /\ store = <<>>
    /\ pc = "idle"
    /\ op = "none"
    /\ query = <<>>
    /\ opts = NoOptions
    /\ result = Returned(<<>>)
    /\ candidates = <<>>
    /\ selected = <<>>
    /\ remaining = <<>>
    /\ currentYear = FirstYear
    /\ call = NoCall
    /\ returned = <<>>
    /\ earlier = <<>>
    /\ heap = <<>>
    /\ given = NoArrays
    /\ pending = <<>>
    /\ last = NoReturn
    /\ playlistAnalysis = <<>>
    /\ procs = <<>>

\* processSong(track, audioFeatures, genres) is called and waits for findUnique.
ProcessSongCalled ==
    /\ Len(procs) < MaxProcs
    /\ \E track \in IngestTracks :
          \E genres \in { trackGenres(track), <<>> } :
              procs' = Append(procs, [fn |-> "processSong", pc |-> "findUnique",
                                      track |-> track, genres |-> genres, data |-> <<>>])
    /\ UNCHANGED <<store, playlistAnalysis>>
    /\ UNCHANGED <<pc, op, query, opts, result, candidates, selected, remaining>>
    /\ UNCHANGED <<evars, hvars>>

\* ingestPlaylist(playlistId) is called: the tracks and the audio features
\* Spotify answers with, then the loop to its first await.
IngestPlaylistCalled ==
    /\ Len(procs) < MaxProcs
    /\ Cardinality({ i \in 1..Len(procs) : procs[i].fn = "ingestPlaylist" }) < MaxIngests
    /\ \E playlistId \in PlaylistIds :
          \E tracks \in IngestPlaylists :
              \E featured \in { { tracks[k].id : k \in 1..Len(tracks) } \ none :
                                 none \in NoFeatures } :
                  LET p == [fn |-> "ingestPlaylist", pc |-> "thrown",
                            playlistId |-> playlistId, tracks |-> tracks,
                            featured |-> featured, index |-> 0, processedCount |-> 0,
                            data |-> <<>>, stored |-> <<>>, playlistVector |-> <<>>,
                            fresh |-> \A k \in 1..Len(tracks) : ~Existing(store, tracks[k].id)]
                  IN  procs' = Append(procs, IF Len(tracks) = 0 THEN p
                                             ELSE NextTrack(p, 1, currentYear))
    /\ UNCHANGED <<store, playlistAnalysis>>
    /\ UNCHANGED <<pc, op, query, opts, result, candidates, selected, remaining>>
    /\ UNCHANGED <<evars, hvars>>

\* findUnique answers a processSong call: it returns if the song exists, and
\* otherwise builds the vectors and the date and sends create.
FindUniqueAnswered ==
    /\ \E i \in 1..Len(procs) :
          /\ procs[i].pc = "findUnique"
          /\ procs' = [procs EXCEPT ![i] =
                IF Existing(store, TrackOf(procs[i]).id)
                THEN AfterSong(procs[i], <<>>, currentYear)
                ELSE [procs[i] EXCEPT !.pc = "create",
                                      !.data = SongData(TrackOf(procs[i]), IngestAudioFeatures,
                                                        GenresOf(procs[i]), currentYear)]]
    /\ UNCHANGED <<store, playlistAnalysis>>
    /\ UNCHANGED <<pc, op, query, opts, result, candidates, selected, remaining>>
    /\ UNCHANGED <<evars, hvars>>

\* create answers: the row is stored, or create throws and the catch of
\* processSong logs the error; either way processSong returns.
CreateAnswered ==
    /\ \E i \in 1..Len(procs) :
          /\ procs[i].pc = "create"
          /\ IF CreateSucceeds(store, procs[i].data)
             THEN /\ store' = Append(store, procs[i].data)
                  /\ procs' = [procs EXCEPT ![i] =
                        AfterSong([procs[i] EXCEPT !.data = <<>>],
                                  << Get(procs[i].data.combinedVector) >>, currentYear)]
             ELSE /\ store' = store
                  /\ procs' = [procs EXCEPT ![i] =
                        AfterSong([procs[i] EXCEPT !.data = <<>>], <<>>, currentYear)]
    /\ UNCHANGED playlistAnalysis
    /\ UNCHANGED <<pc, op, query, opts, result, candidates, selected, remaining>>
    /\ UNCHANGED <<evars, hvars>>

\* upsert answers: createPlaylistAnalysis and ingestPlaylist return.
UpsertAnswered ==
    /\ \E i \in 1..Len(procs) :
          /\ procs[i].pc = "upsert"
          /\ playlistAnalysis' = Upsert(playlistAnalysis,
                [spotifyPlaylistId |-> procs[i].playlistId,
                 playlistVector |-> procs[i].playlistVector,
                 trackCount |-> Len(procs[i].tracks)])
          /\ procs' = [procs EXCEPT ![i] = [procs[i] EXCEPT !.pc = "returned"]]
    /\ UNCHANGED store
    /\ UNCHANGED <<pc, op, query, opts, result, candidates, selected, remaining>>
    /\ UNCHANGED <<evars, hvars>>

NextIngest ==
    \/ ProcessSongCalled
    \/ IngestPlaylistCalled
    \/ FindUniqueAnswered
    \/ CreateAnswered
    \/ UpsertAnswered

SpecIngest == InitIngest /\ [][NextIngest]_vars

----------------------------------------------------------------------------
(* C28: the stored playlist vector against the stored song vectors *)

\* The ingestPlaylist call i has returned, and no track of its playlist was
\* stored when it was called.
IngestionDone(i) ==
    procs[i].fn = "ingestPlaylist" /\ procs[i].pc = "returned" /\ procs[i].fresh

\* The row of the PlaylistAnalysis table for a playlist.
AnalysisOf(playlistId) ==
    playlistAnalysis[CHOOSE k \in 1..Len(playlistAnalysis) :
                         playlistAnalysis[k].spotifyPlaylistId = playlistId]

\* The places of a playlist whose track has audio features.
Featured(p) == { k \in 1..Len(p.tracks) : p.tracks[k].id \in p.featured }

\* The song vector of a track built with these genres.
VectorWith(track, genres) ==
    createCombinedVector([track |-> track, audioFeatures |-> IngestAudioFeatures,
                          genres |-> genres], currentYear)

\* C28: after an ingestPlaylist of a playlist none of whose tracks was stored
\* before, the stored playlistVector is createPlaylistVector of the combined
\* vectors this ingestion stored, and for every track with audio features the
\* genre list of its stored vector and the genre list used for the playlist
\* vector give the same vector.
C28_PlaylistVectorOfStoredVectors ==
    \A i \in 1..Len(procs) :
        IngestionDone(i) =>
            /\ SameVector(AnalysisOf(procs[i].playlistId).playlistVector,
                          createPlaylistVector(procs[i].stored))
            /\ \A k \in Featured(procs[i]) :
                   SameVector(VectorWith(procs[i].tracks[k], trackGenres(procs[i].tracks[k])),
                              VectorWith(procs[i].tracks[k], AnalysisGenres(procs[i].tracks[k])))

\* Every track with audio features has artists of different genres, is in the
\* playlist once and was stored by this ingestion.
PlainIngestion(p) ==
    /\ Len(p.stored) = Cardinality(Featured(p))
    /\ \A k \in Featured(p) : trackGenres(p.tracks[k]) = AnalysisGenres(p.tracks[k])

\* For such an ingestion the stored playlistVector is createPlaylistVector of
\* the stored combined vectors.
PlaylistVectorOfPlainIngestion ==
    \A i \in 1..Len(procs) :
        (IngestionDone(i) /\ PlainIngestion(procs[i])) =>
            SameVector(AnalysisOf(procs[i].playlistId).playlistVector,
                       createPlaylistVector(procs[i].stored))

\* A plain ingestion has returned.
PlainIngestionReached ==
    \E i \in 1..Len(procs) : IngestionDone(i) /\ PlainIngestion(procs[i])

\* An ingestion of the track with three artists alone has returned and has
\* stored the track.
SharedGenreIngested ==
    \E i \in 1..Len(procs) :
        /\ IngestionDone(i)
        /\ Len(procs[i].tracks) = 1
        /\ procs[i].tracks[1].id = "t2"
        /\ Len(procs[i].stored) = 1
        /\ ~SameVector(AnalysisOf(procs[i].playlistId).playlistVector, procs[i].stored[1])

----------------------------------------------------------------------------
(* C29: processSong calls for one track id *)

AllReturned == \A i \in 1..Len(procs) : procs[i].pc \in { "returned", "thrown" }

\* The tracks processSong was called for.
ProcessedTracks ==
    { procs[i].track : i \in { j \in 1..Len(procs) : procs[j].fn = "processSong" } }

Records(spotifyId) == { k \in 1..Len(store) : store[k].spotifyId = spotifyId }

NoErrorPropagates ==
    \A i \in 1..Len(procs) : procs[i].fn = "processSong" => procs[i].pc # "thrown"

\* No step removes or changes a stored song.
RowsKept == \A k \in 1..Len(store) : k <= Len(store') /\ store'[k] = store[k]

\* C29: when the processSong calls for a track id have returned, called one
\* after another or interleaved, the store holds exactly one song with that
\* id; no stored song is ever overwritten; no call throws to its caller.
C29_ExactlyOneRecordFirstKept ==
    /\ [](AllReturned => \A track \in ProcessedTracks : Cardinality(Records(track.id)) = 1)
    /\ []NoErrorPropagates
    /\ [][RowsKept]_vars

\* The same for the tracks whose release date new Date can read.
RaceSafeWhenDateParses ==
    /\ [](AllReturned => \A track \in ProcessedTracks :
             NewDate(track.album.release_date) # InvalidDate =>
                 Cardinality(Records(track.id)) = 1)
    /\ []NoErrorPropagates
    /\ [][RowsKept]_vars

\* Two calls for one track id have both been told that no such song exists.
RaceReached ==
    \E i, j \in 1..Len(procs) :
        /\ i # j
        /\ procs[i].pc = "create" /\ procs[j].pc = "create"
        /\ procs[i].data.spotifyId = procs[j].data.spotifyId
        /\ procs[i].data.combinedVector # procs[j].data.combinedVector

\* The calls for the track whose release date is not a date have returned
\* and the store holds no song with its id.
UnreadableDateNeverStored ==
    /\ AllReturned
    /\ \E track \in ProcessedTracks : track.id = "t3" /\ Records("t3") = {}

----------------------------------------------------------------------------
(* C30: getDiverseRecommendations with diversityWeight 0 against findSimilarSongs *)

\* getDiverseRecommendations has returned for diversityWeight 0.
ZeroWeightDone == DiverseDone /\ opts.diversityWeight = Some(RInt(0))

\* What findSimilarSongs returns for the same query vector and options.
RankOfSame == findSimilarSongs(store, query, opts)

\* The stored songs that pass the where clause.
PassingFilters == SelectSeq(store, LAMBDA s : Matches(s, WhereClause(opts)))

\* C30: with diversityWeight 0 getDiverseRecommendations returns the list
\* findSimilarSongs returns for the same query vector, filters, threshold and
\* limit, whatever the stored songs are.
C30_ZeroWeightDiverseIsRank ==
    ZeroWeightDone => (~RankOfSame.error /\ result.list = RankOfSame.list)

\* The same when findMany's take does not cut the rows of findSimilarSongs.
ZeroWeightDiverseIsRankWithinTake ==
    (ZeroWeightDone /\ Len(PassingFilters) <= TakeCount(Limit)) =>
        (~RankOfSame.error /\ result.list = RankOfSame.list)

\* The greedy loop has run with diversityWeight 0 and findMany's take cut
\* nothing.
ZeroWeightLoopWithinTake ==
    /\ ZeroWeightDone
    /\ Len(PassingFilters) <= TakeCount(Limit)
    /\ Len(PassingFilters) > Limit
    /\ Len(result.list) > 1

====
